---- MODULE Spec2Model ----
(***************************************************************************)
(* The write buffer of influxdb3_write: line-protocol validation against   *)
(* the schema catalog, the optimistic catalog update, the flush path that  *)
(* appends to the WAL and applies to the in-memory segments, the segment   *)
(* persist loop and the reload of the buffer from the WAL.                 *)
(***************************************************************************)
EXTENDS Integers, Sequences, FiniteSets, TLC

(***************************************************************************)
(* Bounds of the model.                                                    *)
(***************************************************************************)
\* write_lp calls started in one behaviour
MaxWrites == 2
\* segment durations that pass in one behaviour
MaxTicks == 1
\* restarts (WriteBufferImpl::new on the same WAL and persister)
MaxRestarts == 1
\* lines of one line-protocol input of the validation specification
MaxLines == 3
\* uploads of the persist loop that fail in one behaviour
MaxUploadFailures == 1
\* get_table_chunks calls of the reader
MaxReads == 1

(***************************************************************************)
(* Program constants.                                                      *)
(***************************************************************************)
NanosPerSec == 1000000000
SegmentDurationSecs == 300
GracePeriodSecs == 0
TIME_COLUMN_NAME == "time"

Precisions == {"Second", "Millisecond", "Microsecond", "Nanosecond"}

\* the nanosecond multiplier of a precision
Multiplier(precision) ==
  CASE precision = "Second" -> 1000000000
    [] precision = "Millisecond" -> 1000000
    [] precision = "Microsecond" -> 1000
    [] precision = "Nanosecond" -> 1

(***************************************************************************)
(* A nanosecond count is held as [s, n] with value s * 10^9 + n and        *)
(* 0 <= n < 10^9, so that products with the multipliers stay exact.        *)
(***************************************************************************)
Nanos(s, n) == [s |-> s, n |-> n]

\* ts * multiplier
TimeValueNanos(ts, precision) ==
  LET per == NanosPerSec \div Multiplier(precision)
  IN  Nanos(ts \div per, (ts % per) * Multiplier(precision))

\* time_value_nanos / 1_000_000_000, the quotient truncated toward zero
NanosDivSecs(t) == IF t.s < 0 /\ t.n > 0 THEN t.s + 1 ELSE t.s

\* SegmentDuration::start_time: the start of the bucket of a time in seconds
StartTime(timestamp_seconds) ==
  LET q == IF timestamp_seconds >= 0
           THEN timestamp_seconds \div SegmentDurationSecs
           ELSE -((-timestamp_seconds) \div SegmentDurationSecs)
  IN  SegmentDurationSecs * q

(***************************************************************************)
(* Line protocol.  A text line is a point, a line the parser rejects, a    *)
(* blank line or a comment.  A point names its measurement, its tag keys,  *)
(* its fields with the variant of each value, and its timestamp literal.   *)
(***************************************************************************)
Line(kind, m, tags, fields, ts) ==
  [kind |-> kind, measurement |-> m, tag_set |-> tags, field_set |-> fields,
   timestamp |-> ts]

\* an absent and a present optional value
NoneOpt == <<>>
Some(x) == <<x>>

\* cpu bar=1 10
LCpuBar == Line("point", "cpu", <<>>, << <<"bar", "F64">> >>, Some(10))
\* cpu bar=1i 10
LCpuBarInt == Line("point", "cpu", <<>>, << <<"bar", "I64">> >>, Some(10))
\* cpu,region=west user=23.2 100
LCpuRegionUser == Line("point", "cpu", <<"region">>, << <<"user", "F64">> >>, Some(100))
\* cpu bar=2 400
LCpuBarLate == Line("point", "cpu", <<>>, << <<"bar", "F64">> >>, Some(400))
\* foo f1=1i
LFoo == Line("point", "foo", <<>>, << <<"f1", "I64">> >>, NoneOpt)
\* cpu (a line without a field set, which the parser rejects)
LBad == Line("bad", "cpu", <<>>, <<>>, NoneOpt)
\* an empty line
LBlank == Line("blank", "", <<>>, <<>>, NoneOpt)
\* # c
LComment == Line("comment", "# c", <<>>, <<>>, NoneOpt)

Lines == {LCpuBar, LCpuBarInt, LCpuRegionUser, LCpuBarLate, LFoo, LBad, LBlank, LComment}

\* str::lines: the lines of the text; a final empty line is not a line
LpLines(lp) ==
  IF lp # <<>> /\ lp[Len(lp)] = LBlank THEN SubSeq(lp, 1, Len(lp) - 1) ELSE lp

IsParsed(l) == l.kind \in {"point", "bad"}

\* influxdb_line_protocol::parse_lines: one result per line that is neither
\* blank nor a comment, in input order
ParseLines(lp) == SelectSeq(lp, IsParsed)

\* data_types::column_type_from_field
ColumnTypeFromField(value) ==
  CASE value = "I64" -> "I64"
    [] value = "F64" -> "F64"
    [] value = "U64" -> "U64"
    [] value = "Boolean" -> "Bool"
    [] value = "String" -> "String"

\* the FieldData variant built from a FieldValue
FieldDataOf(value) ==
  CASE value = "I64" -> "Integer"
    [] value = "F64" -> "Float"
    [] value = "U64" -> "UInteger"
    [] value = "Boolean" -> "Boolean"
    [] value = "String" -> "String"

\* the FieldData variant a column type holds
VariantOfColumn(ctype) ==
  CASE ctype = "I64" -> "Integer"
    [] ctype = "F64" -> "Float"
    [] ctype = "U64" -> "UInteger"
    [] ctype = "Bool" -> "Boolean"
    [] ctype = "String" -> "String"
    [] ctype = "Tag" -> "Tag"
    [] ctype = "Time" -> "Timestamp"

(***************************************************************************)
(* Maps as functions on a finite domain.                                   *)
(***************************************************************************)
EmptyMap == [x \in {} |-> <<>>]

Put(m, k, v) == [x \in (DOMAIN m) \cup {k} |-> IF x = k THEN v ELSE m[x]]

RECURSIVE InsertAll(_, _)
\* insert the pairs of a sequence in order, a later pair replacing an earlier
InsertAll(m, pairs) ==
  IF pairs = <<>> THEN m
  ELSE InsertAll(Put(m, Head(pairs)[1], Head(pairs)[2]), Tail(pairs))

SeqMap(Op(_), s) == [i \in 1..Len(s) |-> Op(s[i])]

(***************************************************************************)
(* Catalog types.                                                          *)
(***************************************************************************)
\* DatabaseSchema::new
NewDatabaseSchema(name) == [name |-> name, tables |-> EmptyMap]

\* TableDefinition::new
NewTableDefinition(name, columns) == [name |-> name, columns |-> columns]

\* TableDefinition::column_exists
ColumnExists(t, name) == name \in DOMAIN t.columns

\* TableDefinition::add_columns
AddColumns(t, new_cols) == [t EXCEPT !.columns = InsertAll(t.columns, new_cols)]

(***************************************************************************)
(* Validation of line protocol against a schema snapshot.                  *)
(***************************************************************************)
Field(name, value) == [name |-> name, value |-> value]

Row(time, fields) == [time |-> time, fields |-> fields]

TagColumn(tag_key) == <<tag_key, "Tag">>

FieldColumn(f) == <<f[1], ColumnTypeFromField(f[2])>>

TagField(tag_key) == Field(tag_key, "Tag")

ValueField(f) == Field(f[1], FieldDataOf(f[2]))

\* a table that is built anew from the columns of the line whenever the line
\* brings a column the table lacks
LineTableRebuilt(line, tables) ==
  LET table_name == line.measurement
      cols == SeqMap(TagColumn, line.tag_set) \o SeqMap(FieldColumn, line.field_set)
  IN  IF table_name \in DOMAIN tables
         /\ \A i \in DOMAIN cols : ColumnExists(tables[table_name], cols[i][1])
      THEN tables[table_name]
      ELSE NewTableDefinition(table_name,
             InsertAll(EmptyMap, cols \o << <<TIME_COLUMN_NAME, "Time">> >>))

\* a table that is created with the tags and fields of the line alone
LineTableUntimed(line, tables) ==
  LET table_name == line.measurement
      cols == SeqMap(TagColumn, line.tag_set) \o SeqMap(FieldColumn, line.field_set)
  IN  IF table_name \in DOMAIN tables
      THEN LET t == tables[table_name]
               IsNew(c) == ~ColumnExists(t, c[1])
               new_cols == SelectSeq(cols, IsNew)
           IN  IF new_cols # <<>> THEN AddColumns(t, new_cols) ELSE t
      ELSE NewTableDefinition(table_name, InsertAll(EmptyMap, cols))

\* the table a line writes to, created or extended with the columns it lacks
LineTable(line, tables) ==
  LET table_name == line.measurement
      cols == SeqMap(TagColumn, line.tag_set) \o SeqMap(FieldColumn, line.field_set)
  IN  IF table_name \in DOMAIN tables
      THEN LET t == tables[table_name]
               IsNew(c) == ~ColumnExists(t, c[1])
               new_cols == SelectSeq(cols, IsNew)
           IN  IF new_cols # <<>> THEN AddColumns(t, new_cols) ELSE t
      ELSE NewTableDefinition(table_name,
             InsertAll(EmptyMap, cols \o << <<TIME_COLUMN_NAME, "Time">> >>))

\* a validation that makes the Cow of the schema owned at every line
LineChangesSchemaAlways(line, tables) == line.measurement = line.measurement

\* whether a line makes the Cow of the schema owned (to_mut is called)
LineChangesSchema(line, tables) ==
  \/ line.measurement \notin DOMAIN tables
  \/ LineTable(line, tables) # tables[line.measurement]

\* the row time of a line
LineTime(line, ingest_time, precision) ==
  IF line.timestamp # NoneOpt
  THEN TimeValueNanos(line.timestamp[1], precision)
  ELSE ingest_time

\* the row of a line: its tags, its fields, then the time
LineRow(line, ingest_time, precision) ==
  LET time_value_nanos == LineTime(line, ingest_time, precision)
  IN  Row(time_value_nanos,
          SeqMap(TagField, line.tag_set) \o SeqMap(ValueField, line.field_set)
            \o <<Field(TIME_COLUMN_NAME, "Timestamp")>>)

EmptyTableBatchMap == [lines |-> <<>>, table_batches |-> EmptyMap]

\* validate_and_convert_parsed_line with the row stored as the only row of
\* its table batch instead of pushed after the rows already there
ValidateAndConvertParsedLineOverwrite(line, raw_line, acc, ingest_time, precision) ==
  LET table_name == line.measurement
      tables == acc.schema.tables
      row == LineRow(line, ingest_time, precision)
      segment_start == StartTime(NanosDivSecs(row.time))
      table_batch_map == IF segment_start \in DOMAIN acc.batches
                         THEN acc.batches[segment_start]
                         ELSE EmptyTableBatchMap
  IN  [schema |-> [acc.schema EXCEPT
                     !.tables = Put(tables, table_name, LineTable(line, tables))],
       owned |-> acc.owned \/ LineChangesSchema(line, tables),
       batches |-> Put(acc.batches, segment_start,
                       [lines |-> Append(table_batch_map.lines, raw_line),
                        table_batches |-> Put(table_batch_map.table_batches,
                                              table_name, <<row>>)])]

\* validate_and_convert_parsed_line with every row put in the bucket of the
\* ingest time
ValidateAndConvertParsedLineIngestBucket(line, raw_line, acc, ingest_time, precision) ==
  LET table_name == line.measurement
      tables == acc.schema.tables
      row == LineRow(line, ingest_time, precision)
      segment_start == StartTime(NanosDivSecs(ingest_time))
      table_batch_map == IF segment_start \in DOMAIN acc.batches
                         THEN acc.batches[segment_start]
                         ELSE EmptyTableBatchMap
      rows == IF table_name \in DOMAIN table_batch_map.table_batches
              THEN table_batch_map.table_batches[table_name]
              ELSE <<>>
  IN  [schema |-> [acc.schema EXCEPT
                     !.tables = Put(tables, table_name, LineTable(line, tables))],
       owned |-> acc.owned \/ LineChangesSchema(line, tables),
       batches |-> Put(acc.batches, segment_start,
                       [lines |-> Append(table_batch_map.lines, raw_line),
                        table_batches |-> Put(table_batch_map.table_batches,
                                              table_name, Append(rows, row))])]

\* validate_and_convert_parsed_line.  acc holds the Cow of the schema (the
\* schema and whether it is owned) and segment_table_batches.
ValidateAndConvertParsedLine(line, raw_line, acc, ingest_time, precision) ==
  LET table_name == line.measurement
      tables == acc.schema.tables
      row == LineRow(line, ingest_time, precision)
      segment_start == StartTime(NanosDivSecs(row.time))
      table_batch_map == IF segment_start \in DOMAIN acc.batches
                         THEN acc.batches[segment_start]
                         ELSE EmptyTableBatchMap
      rows == IF table_name \in DOMAIN table_batch_map.table_batches
              THEN table_batch_map.table_batches[table_name]
              ELSE <<>>
  IN  [schema |-> [acc.schema EXCEPT
                     !.tables = Put(tables, table_name, LineTable(line, tables))],
       owned |-> acc.owned \/ LineChangesSchema(line, tables),
       batches |-> Put(acc.batches, segment_start,
                       [lines |-> Append(table_batch_map.lines, raw_line),
                        table_batches |-> Put(table_batch_map.table_batches,
                                              table_name, Append(rows, row))])]

RECURSIVE ValidateLines(_, _, _, _)
\* the loop of validate_or_insert_schema_and_partitions over the lines
ValidateLines(lines, acc, ingest_time, precision) ==
  IF lines = <<>> THEN acc
  ELSE ValidateLines(Tail(lines),
         ValidateAndConvertParsedLine(Head(lines).line, Head(lines).raw, acc,
                                      ingest_time, precision),
         ingest_time, precision)

LpWriteOp(db_name, lp, default_time) ==
  [db_name |-> db_name, lp |-> lp, default_time |-> default_time]

RECURSIVE SumSeq(_)
SumSeq(s) == IF s = <<>> THEN 0 ELSE Head(s) + SumSeq(Tail(s))

FieldSetLen(l) == Len(l.line.field_set)

TagSetLen(l) == Len(l.line.tag_set)

\* a validation that returns the schema it ends with, changed or not
ValidateOrInsertSchemaAndPartitionsOwned(lines, schema, db_name, ingest_time, precision) ==
  LET acc == ValidateLines(lines, [schema |-> schema, owned |-> FALSE,
                                   batches |-> EmptyMap],
                           ingest_time, precision)
  IN  [ok |-> TRUE,
       error |-> NoneOpt,
       schema |-> Some(acc.schema),
       line_count |-> Len(lines),
       field_count |-> SumSeq(SeqMap(FieldSetLen, lines)),
       tag_count |-> SumSeq(SeqMap(TagSetLen, lines)),
       errors |-> <<>>,
       valid_segmented_data |->
         [segment_start \in DOMAIN acc.batches |->
            [database_name |-> db_name,
             segment_start |-> segment_start,
             table_batches |-> acc.batches[segment_start].table_batches,
             wal_op |-> LpWriteOp(db_name, acc.batches[segment_start].lines,
                                  ingest_time)]]]

\* validate_or_insert_schema_and_partitions
ValidateOrInsertSchemaAndPartitions(lines, schema, db_name, ingest_time, precision) ==
  LET acc == ValidateLines(lines, [schema |-> schema, owned |-> FALSE,
                                   batches |-> EmptyMap],
                           ingest_time, precision)
  IN  [ok |-> TRUE,
       error |-> NoneOpt,
       schema |-> IF acc.owned THEN Some(acc.schema) ELSE NoneOpt,
       line_count |-> Len(lines),
       field_count |-> SumSeq(SeqMap(FieldSetLen, lines)),
       tag_count |-> SumSeq(SeqMap(TagSetLen, lines)),
       errors |-> <<>>,
       valid_segmented_data |->
         [segment_start \in DOMAIN acc.batches |->
            [database_name |-> db_name,
             segment_start |-> segment_start,
             table_batches |-> acc.batches[segment_start].table_batches,
             wal_op |-> LpWriteOp(db_name, acc.batches[segment_start].lines,
                                  ingest_time)]]]

WriteLineError(original_line, line_number) ==
  [original_line |-> original_line, line_number |-> line_number]

\* parse_validate_and_update_schema
ParseValidateAndUpdateSchema(lp, schema, db_name, ingest_time, accept_partial, precision) ==
  LET parsed == ParseLines(lp)
      lp_lines == LpLines(lp)
      \* the k-th result of parse_lines with the k-th item of lp_lines
      paired == [k \in 1..Len(parsed) |->
                   [line |-> parsed[k], raw |-> lp_lines[k], idx |-> k]]
      IsErr(x) == x.line.kind = "bad"
      IsOk(x) == x.line.kind = "point"
      ToError(x) == WriteLineError(x.raw, x.idx)
      errors == SeqMap(ToError, SelectSeq(paired, IsErr))
      valid_parsed_and_raw_lines == SelectSeq(paired, IsOk)
  IN  IF ~accept_partial /\ errors # <<>>
      THEN [ok |-> FALSE, error |-> Some([kind |-> "ParseError", line |-> Some(errors[1])]),
            schema |-> NoneOpt, line_count |-> 0, field_count |-> 0, tag_count |-> 0,
            errors |-> <<>>, valid_segmented_data |-> EmptyMap]
      ELSE [ValidateOrInsertSchemaAndPartitions(valid_parsed_and_raw_lines, schema,
                                                db_name, ingest_time, precision)
              EXCEPT !.errors = errors]

(***************************************************************************)
(* The catalog.                                                            *)
(***************************************************************************)
\* Catalog::db_or_create: the catalog with an entry for the database
DbOrCreate(cat, db_name) ==
  IF db_name \in DOMAIN cat THEN cat
  ELSE Put(cat, db_name, [sequence |-> 0, schema |-> NewDatabaseSchema(db_name)])

\* Catalog::replace_database: whether the stored sequence is the expected one
ReplaceSucceeds(cat, sequence, db_name) == cat[db_name].sequence = sequence

\* a replace_database on a catalog with one sequence for all its databases:
\* every entry gets the next sequence
ReplaceDatabaseOneSequence(cat, sequence, schema) ==
  [db_name \in DOMAIN cat \cup {schema.name} |->
     IF db_name = schema.name
     THEN [sequence |-> sequence + 1, schema |-> schema]
     ELSE [cat[db_name] EXCEPT !.sequence = sequence + 1]]

\* Catalog::replace_database: the catalog with the new schema installed
ReplaceDatabase(cat, sequence, schema) ==
  Put(cat, schema.name, [sequence |-> sequence + 1, schema |-> schema])

(***************************************************************************)
(* The state of the write buffer.                                          *)
(***************************************************************************)
Writers == {"w1", "w2"}

IngestTime == Nanos(0, 123)

WriteRequest(db_name, lp, ingest_time, accept_partial, precision) ==
  [db_name |-> db_name, lp |-> lp, ingest_time |-> ingest_time,
   accept_partial |-> accept_partial, precision |-> precision]

\* the write_lp calls of the clients
WriteRequests ==
  { WriteRequest("foo", <<LCpuBar, LCpuBarLate>>, IngestTime, FALSE, "Second"),
    WriteRequest("foo", <<LCpuRegionUser, LCpuBarInt>>, IngestTime, FALSE, "Nanosecond"),
    WriteRequest("bar", <<LComment, LFoo, LBad>>, IngestTime, TRUE, "Nanosecond"),
    WriteRequest("foo", <<LCpuBar, LBad>>, IngestTime, FALSE, "Nanosecond") }

VARIABLES
  catalog,      \* Catalog: database name -> [sequence, schema]
  wr,           \* per write_lp caller: its position and its locals
  segments,     \* SegmentState: segment id -> [start, state, buffer]
  last_segment_id,
  wal,          \* the WAL files: segment id -> the batches appended
  store,        \* object storage: persisted segment id -> its rows
  persisted_catalog,
  now,          \* the time provider, in seconds
  persist_loop, \* the persist task: shutdown signal, running, failed uploads
  reader,       \* a get_table_chunks caller: its position and its locals
  locks,        \* the catalog lock and the segment-state lock: holders, positions
  call,         \* a call of a function on its own: its arguments and its result
  hist          \* history: the calls made, the acknowledged ones, counters

vars == <<catalog, wr, segments, last_segment_id, wal, store,
          persisted_catalog, now, persist_loop, reader, locks, call, hist>>

\* the persist task spawned by WriteBufferImpl::new: the shutdown signal is
\* not raised, the task runs, no upload of the current scan has failed
StartedPersistLoop ==
  [shutdown |-> FALSE, running |-> TRUE, failed |-> {}, failures |-> 0]

\* a reader that has made no call: reads counts its calls, at_call is the
\* history of what clone_table_buffers returned to the current call
IdleReader ==
  [pc |-> "idle", reads |-> 0, req |-> <<>>, held |-> <<>>, at_call |-> <<>>, table |-> <<>>,
   chunks |-> <<>>, error |-> <<>>]

\* the tasks that take the locks: two write_lp callers (with the flusher
\* working for them), a get_table_chunks caller and the persist task
Actors == {"w1", "w2", "reader", "persist"}

\* no task holds a lock, and each is at the first step of its operation
NoLocks ==
  [held |-> [a \in Actors |-> {}], pc |-> [a \in Actors |-> 1]]

\* no function is called on its own
NoCall == [fn |-> "none", args |-> <<>>, result |-> <<>>]

IdleWriter ==
  [pc |-> "idle", wid |-> 0, req |-> NoneOpt, sequence |-> 0, db |-> NoneOpt,
   result |-> NoneOpt, error |-> NoneOpt, mutated |-> FALSE]

Init ==
  /\ catalog = EmptyMap
  /\ wr = [w \in Writers |-> IdleWriter]
  /\ segments = EmptyMap
  /\ last_segment_id = 0
  /\ wal = EmptyMap
  /\ store = EmptyMap
  /\ persisted_catalog = EmptyMap
  /\ now = 0
  /\ persist_loop = StartedPersistLoop
  /\ reader = IdleReader
  /\ locks = NoLocks
  /\ call = NoCall
  /\ hist = [calls |-> 0, acked |-> {}, appended |-> <<>>, applied |-> <<>>,
             restarts |-> 0, restart |-> NoneOpt,
             upload_failed |-> {}]

\* a caller that is not inside write_lp
AtRest(w) == wr[w].pc \in {"idle", "ok", "err"}

\* the callers are interchangeable: a new call is made by the first caller
\* that is not inside write_lp
NextCaller(w) == AtRest(w) /\ (w = "w2" => ~AtRest("w1"))

\* the locals of a call are dropped when it returns
Returned(w, pc, error) ==
  [IdleWriter EXCEPT !.pc = pc, !.wid = wr[w].wid, !.error = error,
                     !.mutated = wr[w].mutated]

(***************************************************************************)
(* write_lp, up to the catalog update.                                     *)
(***************************************************************************)
\* a parse_validate_and_update_catalog that calls replace_database after every
\* validation, with the snapshot when the validation returned no schema
ParseValidateAlwaysReplacing(w, r) ==
  LET cat == DbOrCreate(catalog, r.db_name)
      sequence == cat[r.db_name].sequence
      db == cat[r.db_name].schema
      result == ParseValidateAndUpdateSchema(r.lp, db, r.db_name, r.ingest_time,
                                             r.accept_partial, r.precision)
      wid == hist.calls + 1
  IN  /\ NextCaller(w)
      /\ hist.calls < MaxWrites
      /\ catalog' = cat
      /\ wr' = [wr EXCEPT ![w] =
                  IF ~result.ok
                  THEN [IdleWriter EXCEPT !.pc = "err", !.wid = wid,
                                          !.error = result.error,
                                          !.mutated = cat # catalog]
                  ELSE [pc |-> "replace",
                        wid |-> wid, req |-> Some(r), sequence |-> sequence,
                        db |-> Some(db),
                        result |-> Some([result EXCEPT !.schema =
                                           IF @ # NoneOpt THEN @ ELSE Some(db)]),
                        error |-> NoneOpt,
                        mutated |-> cat # catalog]]
      /\ hist' = [hist EXCEPT !.calls = wid]
      /\ UNCHANGED <<reader, locks, call, segments, last_segment_id, wal, store,
                     persisted_catalog, now, persist_loop>>

\* parse_validate_and_update_catalog, lines 381-390: db_or_create and the
\* validation against the schema it returned
ParseValidate(w, r) ==
  LET cat == DbOrCreate(catalog, r.db_name)
      sequence == cat[r.db_name].sequence
      db == cat[r.db_name].schema
      result == ParseValidateAndUpdateSchema(r.lp, db, r.db_name, r.ingest_time,
                                             r.accept_partial, r.precision)
      wid == hist.calls + 1
  IN  /\ NextCaller(w)
      /\ hist.calls < MaxWrites
      /\ catalog' = cat
      /\ wr' = [wr EXCEPT ![w] =
                  IF ~result.ok
                  THEN [IdleWriter EXCEPT !.pc = "err", !.wid = wid,
                                          !.error = result.error,
                                          !.mutated = cat # catalog]
                  ELSE [pc |-> IF result.schema # NoneOpt THEN "replace" ELSE "flush",
                        wid |-> wid, req |-> Some(r), sequence |-> sequence,
                        db |-> Some(db), result |-> Some(result), error |-> NoneOpt,
                        mutated |-> cat # catalog]]
      /\ hist' = [hist EXCEPT !.calls = wid]
      /\ UNCHANGED <<reader, locks, call, segments, last_segment_id, wal, store,
                     persisted_catalog, now, persist_loop>>

\* an update that calls replace_database with the sequence the catalog holds
\* now, not with the one read by db_or_create
UpdateCatalogLatestSequence(w) ==
  LET schema == wr[w].result[1].schema[1]
      sequence == catalog[schema.name].sequence
  IN  /\ wr[w].pc = "replace"
      /\ catalog' = ReplaceDatabase(catalog, sequence, schema)
      /\ wr' = [wr EXCEPT ![w].pc = "flush", ![w].mutated = TRUE]
      /\ UNCHANGED <<reader, locks, call, segments, last_segment_id, wal, store,
                     persisted_catalog, now, hist, persist_loop>>

\* parse_validate_and_update_catalog, lines 392-398: replace_database with
\* the sequence read by db_or_create
UpdateCatalog(w) ==
  LET schema == wr[w].result[1].schema[1]
      sequence == wr[w].sequence
  IN  /\ wr[w].pc = "replace"
      /\ IF ReplaceSucceeds(catalog, sequence, schema.name)
         THEN /\ catalog' = ReplaceDatabase(catalog, sequence, schema)
              /\ wr' = [wr EXCEPT ![w].pc = "flush", ![w].mutated = TRUE]
         ELSE /\ catalog' = catalog
              /\ wr' = [wr EXCEPT ![w] =
                          Returned(w, "err", Some([kind |-> "CatalogUpdateError",
                                                   line |-> NoneOpt]))]
      /\ UNCHANGED <<reader, locks, call, segments, last_segment_id, wal, store,
                     persisted_catalog, now, hist, persist_loop>>

(***************************************************************************)
(* SegmentState and the WAL.                                               *)
(***************************************************************************)
Remove(m, k) == [x \in (DOMAIN m) \ {k} |-> m[x]]

OpenIds(segs) == {id \in DOMAIN segs : segs[id].state = "open"}

\* the open segment of a bucket, if there is one
OpenSegmentIds(segs, start) == {id \in OpenIds(segs) : segs[id].start = start}

OpenSegmentId(segs, start) == CHOOSE id \in OpenSegmentIds(segs, start) : TRUE

\* SegmentState: the open segment of a bucket, created with the next segment
\* id and a new WAL file when the bucket has none.  st is [segments,
\* last_segment_id, wal].
GetOrCreateSegment(st, start) ==
  IF OpenSegmentIds(st.segments, start) # {} THEN st
  ELSE LET id == st.last_segment_id + 1
       IN  [segments |-> Put(st.segments, id,
                             [start |-> start, state |-> "open", buffer |-> EmptyMap]),
            last_segment_id |-> id,
            wal |-> Put(st.wal, id, [segment_start |-> start, batches |-> <<>>])]

WalOpBatch(sequence_number, ops, wid) ==
  [sequence_number |-> sequence_number, ops |-> ops, wid |-> wid]

\* an append that numbers the first batch of a file 0
WalAppendFromZero(st, start, wal_op, wid) ==
  LET st1 == GetOrCreateSegment(st, start)
      id == OpenSegmentId(st1.segments, start)
      batches == st1.wal[id].batches
  IN  [st1 EXCEPT !.wal[id].batches =
         Append(batches, WalOpBatch(Len(batches), <<wal_op>>, wid))]

\* an append that gives every batch the sequence number 1
WalAppendUnnumbered(st, start, wal_op, wid) ==
  LET st1 == GetOrCreateSegment(st, start)
      id == OpenSegmentId(st1.segments, start)
      batches == st1.wal[id].batches
  IN  [st1 EXCEPT !.wal[id].batches = Append(batches, WalOpBatch(1, <<wal_op>>, wid))]

\* Wal: append the op of one batch to the WAL file of its segment, with the
\* next sequence number of that file
WalAppend(st, start, wal_op, wid) ==
  LET st1 == GetOrCreateSegment(st, start)
      id == OpenSegmentId(st1.segments, start)
      batches == st1.wal[id].batches
  IN  [st1 EXCEPT !.wal[id].batches =
         Append(batches, WalOpBatch(Len(batches) + 1, <<wal_op>>, wid))]

RECURSIVE WalAppendAll(_, _, _, _)
\* the WAL appends of one write_to_open_segment call, in the order given
WalAppendAll(st, order, data, wid) ==
  IF order = <<>> THEN st
  ELSE WalAppendAll(WalAppend(st, Head(order), data[Head(order)].wal_op, wid),
                    Tail(order), data, wid)

BufferedRow(row, wid) == [row |-> row, wid |-> wid]

RECURSIVE BufferTableBatches(_, _, _, _, _)
\* TableBuffer: the rows of each table of one batch after the rows it holds
BufferTableBatches(buffer, db_name, table_batches, tables, wid) ==
  IF tables = {} THEN buffer
  ELSE LET t == CHOOSE x \in tables : TRUE
           key == <<db_name, t>>
           old == IF key \in DOMAIN buffer THEN buffer[key] ELSE <<>>
           Tagged(row) == BufferedRow(row, wid)
       IN  BufferTableBatches(Put(buffer, key, old \o SeqMap(Tagged, table_batches[t])),
                              db_name, table_batches, tables \ {t}, wid)

\* SegmentState::apply: the rows of one batch go to the open segment of its
\* bucket
ApplyBatch(segs, vsd, wid) ==
  LET id == OpenSegmentId(segs, vsd.segment_start)
  IN  [segs EXCEPT ![id].buffer =
         BufferTableBatches(@, vsd.database_name, vsd.table_batches,
                            DOMAIN vsd.table_batches, wid)]

RECURSIVE ApplyAll(_, _, _)
ApplyAll(segs, data, wid) ==
  IF DOMAIN data = {} THEN segs
  ELSE LET b == CHOOSE x \in DOMAIN data : TRUE
       IN  ApplyAll(ApplyBatch(segs, data[b], wid), Remove(data, b), wid)

\* SegmentState::clone_table_buffers: the buffer of the table in every open
\* segment that has one
CloneTableBuffers(segs, db_name, table_name) ==
  LET key == <<db_name, table_name>>
      ids == {id \in OpenIds(segs) : key \in DOMAIN segs[id].buffer}
  IN  [id \in ids |-> segs[id].buffer[key]]

\* the orders in which the batches of one call can be taken
Orders(S) == {o \in [1..Cardinality(S) -> S] : \A i, j \in DOMAIN o : o[i] = o[j] => i = j}

(***************************************************************************)
(* The flusher.                                                            *)
(***************************************************************************)
\* the flusher is between the WAL append and the apply of a call, and holds
\* the write lock of the segment state
Flushing == {w \in Writers : wr[w].pc = "applying"}

\* a flusher that takes a waiting call while it works on another
FlusherTakesAny(w) == wr[w].pc = "flush"

\* a flusher that serves the calls of the first caller only
FlusherTakesFirst(w) == wr[w].pc = "flush" /\ Flushing = {} /\ w = "w1"

\* write_lp, lines 179-181: a call that holds valid data waits in
\* write_to_open_segment; the flusher takes one waiting call at a time, in
\* the order of their arrival, which is any order
FlusherTakes(w) == wr[w].pc = "flush" /\ Flushing = {}

\* a flusher that opens the segments of a waiting call and goes on to the
\* apply without appending to the WAL
FlushAppendSkipped(w) ==
  LET data == wr[w].result[1].valid_segmented_data
  IN  /\ FlusherTakes(w)
      /\ \E order \in Orders(DOMAIN data) :
           LET st == WalAppendAll([segments |-> segments,
                                   last_segment_id |-> last_segment_id, wal |-> wal],
                                  order, data, wr[w].wid)
           IN  /\ segments' = st.segments
               /\ last_segment_id' = st.last_segment_id
               /\ wal' = [id \in DOMAIN st.wal |->
                            IF id \in DOMAIN wal THEN wal[id]
                            ELSE [st.wal[id] EXCEPT !.batches = <<>>]]
      /\ wr' = [wr EXCEPT ![w].pc = "applying",
                          ![w].mutated = @ \/ DOMAIN data # {}]
      /\ hist' = [hist EXCEPT !.appended = Append(@, wr[w].wid)]
      /\ UNCHANGED <<reader, locks, call, catalog, store, persisted_catalog, now, persist_loop>>

\* the flusher appends the batches of a waiting call to the WAL
FlushAppend(w) ==
  LET data == wr[w].result[1].valid_segmented_data
  IN  /\ FlusherTakes(w)
      /\ \E order \in Orders(DOMAIN data) :
           LET st == WalAppendAll([segments |-> segments,
                                   last_segment_id |-> last_segment_id, wal |-> wal],
                                  order, data, wr[w].wid)
           IN  /\ segments' = st.segments
               /\ last_segment_id' = st.last_segment_id
               /\ wal' = st.wal
      /\ wr' = [wr EXCEPT ![w].pc = "applying",
                          ![w].mutated = @ \/ DOMAIN data # {}]
      /\ hist' = [hist EXCEPT !.appended = Append(@, wr[w].wid)]
      /\ UNCHANGED <<reader, locks, call, catalog, store, persisted_catalog, now, persist_loop>>

\* a flusher whose failed append leaves the batches of the call in the WAL
\* and in the buffers
FlushAppendFailApplied(w) ==
  LET data == wr[w].result[1].valid_segmented_data
  IN  /\ FlusherTakes(w)
      /\ data # EmptyMap
      /\ \E order \in Orders(DOMAIN data) :
           LET st == WalAppendAll([segments |-> segments,
                                   last_segment_id |-> last_segment_id, wal |-> wal],
                                  order, data, wr[w].wid)
           IN  /\ segments' = ApplyAll(st.segments, data, wr[w].wid)
               /\ last_segment_id' = st.last_segment_id
               /\ wal' = st.wal
      /\ wr' = [wr EXCEPT ![w] =
                  Returned(w, "err", Some([kind |-> "WalError", line |-> NoneOpt]))]
      /\ UNCHANGED <<reader, locks, call, catalog, store,
                     persisted_catalog, now, hist, persist_loop>>

\* the WAL append of a waiting call fails
FlushAppendFail(w) ==
  /\ FlusherTakes(w)
  /\ wr[w].result[1].valid_segmented_data # EmptyMap
  /\ wr' = [wr EXCEPT ![w] =
              Returned(w, "err", Some([kind |-> "WalError", line |-> NoneOpt]))]
  /\ UNCHANGED <<reader, locks, call, catalog, segments, last_segment_id, wal, store,
                 persisted_catalog, now, hist, persist_loop>>

\* a flusher that answers a call without applying its batches
FlushApplyDropped(w) ==
  /\ wr[w].pc = "applying"
  /\ wr' = [wr EXCEPT ![w].pc = "flushed"]
  /\ UNCHANGED <<reader, locks, call, catalog, segments, last_segment_id, wal, store,
                 persisted_catalog, now, hist, persist_loop>>

\* the flusher applies the appended batches to the segment buffers
FlushApply(w) ==
  /\ wr[w].pc = "applying"
  /\ segments' = ApplyAll(segments, wr[w].result[1].valid_segmented_data, wr[w].wid)
  /\ wr' = [wr EXCEPT ![w].pc = "flushed"]
  /\ hist' = [hist EXCEPT !.applied = Append(@, wr[w].wid)]
  /\ UNCHANGED <<reader, locks, call, catalog, last_segment_id, wal, store,
                 persisted_catalog, now, persist_loop>>

\* write_lp that answers Ok without waiting for the answer of the flusher
WriteLpReturnUnawaited(w) ==
  /\ wr[w].pc \in {"flush", "flushed"}
  /\ wr' = [wr EXCEPT ![w] = Returned(w, "ok", NoneOpt)]
  /\ hist' = [hist EXCEPT !.acked = @ \cup {[wid |-> wr[w].wid,
                                              data |-> wr[w].result[1].valid_segmented_data]}]
  /\ UNCHANGED <<reader, locks, call, catalog, segments, last_segment_id, wal, store,
                 persisted_catalog, now, persist_loop>>

\* write_lp, lines 181-189: the flusher has answered, the call returns Ok
WriteLpReturn(w) ==
  /\ wr[w].pc = "flushed"
  /\ wr' = [wr EXCEPT ![w] = Returned(w, "ok", NoneOpt)]
  /\ hist' = [hist EXCEPT !.acked = @ \cup {[wid |-> wr[w].wid,
                                              data |-> wr[w].result[1].valid_segmented_data]}]
  /\ UNCHANGED <<reader, locks, call, catalog, segments, last_segment_id, wal, store,
                 persisted_catalog, now, persist_loop>>

(***************************************************************************)
(* The time provider and the persist loop.                                 *)
(***************************************************************************)
\* a close that does not wait for the end of the bucket
PastStart(seg, t) == t >= seg.start

\* the bucket of the segment ended, and the grace period after it
PastGrace(seg, t) == t >= seg.start + SegmentDurationSecs + GracePeriodSecs

\* the open segments the persist loop closes in a scan
SegmentsToPersist(segs, t) == {id \in OpenIds(segs) : PastGrace(segs[id], t)}

\* the closed segments that are written to object storage and whose WAL
\* file is not deleted yet
Uploaded == {id \in DOMAIN segments : segments[id].state = "persisting" /\ id \in DOMAIN store}

\* the times at which the persist loop scans
ScanTimes == {k * SegmentDurationSecs : k \in 0..MaxTicks}

\* the closed segments the current scan has still to upload
ToUpload ==
  {id \in DOMAIN segments : /\ segments[id].state = "persisting"
                            /\ id \notin DOMAIN store
                            /\ id \notin persist_loop.failed}

\* the persist loop is inside a scan: a closed segment waits for its upload
\* or for the deletion of its WAL file
Scanning == ToUpload # {} \/ Uploaded # {}

\* the persist task looks at the shutdown signal between two scans
BetweenScans == persist_loop.running /\ ~Scanning

\* a scan of the persist loop at time t closes the open segments that are
\* past their grace period, and takes up again the closed segments whose
\* upload failed in an earlier scan
PersistClose(t) ==
  /\ BetweenScans
  /\ ~persist_loop.shutdown
  /\ Flushing = {}
  /\ t >= now
  /\ SegmentsToPersist(segments, t) # {} \/ persist_loop.failed # {}
  /\ now' = t
  /\ segments' = [id \in DOMAIN segments |->
                    IF id \in SegmentsToPersist(segments, t)
                    THEN [segments[id] EXCEPT !.state = "persisting"]
                    ELSE segments[id]]
  /\ persist_loop' = [persist_loop EXCEPT !.failed = {}]
  /\ UNCHANGED <<reader, locks, call, catalog, wr, last_segment_id, wal, store,
                 persisted_catalog, hist>>

\* the persist loop writes the columnar file, the segment info and the
\* catalog of a closed segment to object storage, one segment at a time
PersistUpload(id) ==
  /\ persist_loop.running
  /\ id \in ToUpload
  /\ Uploaded = {}
  /\ store' = Put(store, id, segments[id].buffer)
  /\ persisted_catalog' = catalog
  /\ UNCHANGED <<reader, locks, call, catalog, wr, segments, last_segment_id, wal, now, hist, persist_loop>>

\* an upload failure that drops the segment and its WAL file
PersistUploadFailDropping(id) ==
  /\ persist_loop.running
  /\ id \in ToUpload
  /\ Uploaded = {}
  /\ Flushing = {}
  /\ persist_loop.failures < MaxUploadFailures
  /\ persist_loop' = [persist_loop EXCEPT !.failures = @ + 1]
  /\ wal' = Remove(wal, id)
  /\ segments' = Remove(segments, id)
  /\ UNCHANGED <<reader, locks, call, catalog, wr, last_segment_id, store,
                 persisted_catalog, now, hist>>

\* the upload of a closed segment fails: the error is logged, and the
\* segment is left for the next scan
PersistUploadFail(id) ==
  /\ persist_loop.running
  /\ id \in ToUpload
  /\ Uploaded = {}
  /\ persist_loop.failures < MaxUploadFailures
  /\ persist_loop' = [persist_loop EXCEPT !.failed = @ \cup {id},
                                          !.failures = @ + 1]
  /\ hist' = [hist EXCEPT !.upload_failed = @ \cup {id}]
  /\ UNCHANGED <<reader, locks, call, catalog, wr, segments, last_segment_id, wal, store,
                 persisted_catalog, now>>

\* a cleanup that deletes the WAL file of a closed segment that is not
\* written to object storage
PersistCleanupUnconfirmed(id) ==
  /\ persist_loop.running
  /\ Flushing = {}
  /\ id \in DOMAIN segments
  /\ segments[id].state = "persisting"
  /\ wal' = Remove(wal, id)
  /\ segments' = Remove(segments, id)
  /\ UNCHANGED <<reader, locks, call, catalog, wr, last_segment_id, store,
                 persisted_catalog, now, hist, persist_loop>>

\* the persist loop deletes the WAL file of the segment it has written and
\* drops the segment from the segment state
PersistCleanup(id) ==
  /\ persist_loop.running
  /\ Flushing = {}
  /\ id \in Uploaded
  /\ wal' = Remove(wal, id)
  /\ segments' = Remove(segments, id)
  /\ UNCHANGED <<reader, locks, call, catalog, wr, last_segment_id, store,
                 persisted_catalog, now, hist, persist_loop>>

\* shutdown_segment_persist_tx: the shutdown signal is raised
Shutdown ==
  /\ persist_loop.running
  /\ ~persist_loop.shutdown
  /\ persist_loop' = [persist_loop EXCEPT !.shutdown = TRUE]
  /\ UNCHANGED <<reader, locks, call, catalog, wr, segments, last_segment_id, wal, store,
                 persisted_catalog, now, hist>>

\* a persist task that leaves its loop as soon as the signal is raised
PersistExitAtOnce ==
  /\ persist_loop.running
  /\ persist_loop.shutdown
  /\ persist_loop' = [persist_loop EXCEPT !.running = FALSE]
  /\ UNCHANGED <<reader, locks, call, catalog, wr, segments, last_segment_id, wal, store,
                 persisted_catalog, now, hist>>

\* the persist task sees the shutdown signal between two scans and leaves
\* its loop
PersistExit ==
  /\ BetweenScans
  /\ persist_loop.shutdown
  /\ persist_loop' = [persist_loop EXCEPT !.running = FALSE]
  /\ UNCHANGED <<reader, locks, call, catalog, wr, segments, last_segment_id, wal, store,
                 persisted_catalog, now, hist>>

(***************************************************************************)
(* Loading: WriteBufferImpl::new on the WAL and the object store of a      *)
(* write buffer that ran before.                                           *)
(***************************************************************************)
\* the precision the loader validates a logged op with: the op carries none
ReplayPrecision == "Nanosecond"

MaxOf(S) == IF S = {} THEN 0 ELSE CHOOSE x \in S : \A y \in S : y <= x

\* the ids of a set in increasing order
RECURSIVE Ascending(_)
Ascending(S) ==
  IF S = {} THEN <<>>
  ELSE LET m == CHOOSE x \in S : \A y \in S : x <= y
       IN  <<m>> \o Ascending(S \ {m})

\* the state of the loader after an op whose text it has validated against
\* the entry of its database.  ld is [catalog, buffer, ok].
ReplayValidated(ld, op, wid, cat, result) ==
  LET data == result.valid_segmented_data
      start == CHOOSE x \in DOMAIN data : TRUE
  IN  IF ~ld.ok \/ ~result.ok \/ Cardinality(DOMAIN data) > 1
      THEN [ld EXCEPT !.ok = FALSE]
      ELSE [catalog |-> IF result.schema # NoneOpt
                        THEN ReplaceDatabase(cat, cat[op.db_name].sequence,
                                             result.schema[1])
                        ELSE cat,
            buffer |-> IF DOMAIN data = {} THEN ld.buffer
                       ELSE BufferTableBatches(ld.buffer, op.db_name,
                                               data[start].table_batches,
                                               DOMAIN data[start].table_batches, wid),
            ok |-> TRUE]

\* the loader re-validates the line protocol of a logged op against the
\* catalog, with the default time of the op
ReplayOp(ld, op, wid) ==
  ReplayValidated(ld, op, wid, DbOrCreate(ld.catalog, op.db_name),
                  ParseValidateAndUpdateSchema(
                    op.lp, DbOrCreate(ld.catalog, op.db_name)[op.db_name].schema,
                    op.db_name, op.default_time, FALSE, ReplayPrecision))

RECURSIVE ReplayBatches(_, _)
\* the batches of one WAL file in the order of the file
ReplayBatches(ld, batches) ==
  IF batches = <<>> THEN ld
  ELSE ReplayBatches(ReplayOp(ld, Head(batches).ops[1], Head(batches).wid),
                     Tail(batches))

\* the segment of a replayed WAL file, open, after the segments loaded
\* before it.  acc is [catalog, segments, ok, corrupt].
LoadedSegment(acc, id, ld) ==
  [catalog |-> ld.catalog,
   segments |-> Put(acc.segments, id,
                    [start |-> wal[id].segment_start, state |-> "open",
                     buffer |-> ld.buffer]),
   ok |-> ld.ok,
   corrupt |-> acc.corrupt]

\* the WAL files that cannot be parsed when the loader reads them: none, or
\* one of the files
CorruptFiles == {{}} \cup {{id} : id \in DOMAIN wal}

RECURSIVE ReplayFiles(_, _, _)
\* the WAL files to replay, in the order of their segment ids; the loader
\* stops at the first file it cannot parse, with what it has loaded so far
ReplayFiles(acc, ids, bad) ==
  IF ids = <<>> THEN acc
  ELSE IF Head(ids) \in bad
       THEN [acc EXCEPT !.ok = FALSE, !.corrupt = {Head(ids)}]
       ELSE ReplayFiles(LoadedSegment(acc, Head(ids),
                                      ReplayBatches([catalog |-> acc.catalog,
                                                     buffer |-> EmptyMap,
                                                     ok |-> acc.ok],
                                                    wal[Head(ids)].batches)),
                        Tail(ids), bad)

\* load_starting_state: the catalog last persisted, and the segments of the
\* WAL files after the last persisted segment, when the files of bad cannot
\* be parsed
LoadStartingState(bad) ==
  LET watermark == MaxOf(DOMAIN store)
      ids == {id \in DOMAIN wal : id > watermark}
  IN  ReplayFiles([catalog |-> persisted_catalog, segments |-> EmptyMap,
                   ok |-> TRUE, corrupt |-> {}],
                  Ascending(ids), bad)

\* the rows of a buffer, without the call that wrote them
RowsOf(buffer) ==
  LET Plain(e) == e.row
  IN  [key \in DOMAIN buffer |-> SeqMap(Plain, buffer[key])]

\* the buffers of the segments in memory that are not persisted yet
UnpersistedBuffers(segs) ==
  [id \in {x \in DOMAIN segs : x \notin DOMAIN store} |-> RowsOf(segs[id].buffer)]

\* the error of a load that did not succeed
LoadError(loaded) ==
  IF loaded.ok THEN NoneOpt ELSE Some("CorruptLoadState")

\* the history of a restart: the buffers before and after it, and its outcome
RestartRecord(loaded) ==
  [pre |-> UnpersistedBuffers(segments),
   post |-> IF loaded.ok THEN UnpersistedBuffers(loaded.segments) ELSE EmptyMap,
   ok |-> loaded.ok,
   corrupt |-> loaded.corrupt,
   error |-> LoadError(loaded)]

\* a WriteBufferImpl::new that builds the write buffer and spawns the persist
\* task whatever the loader returned
LoadedUnchecked(loaded) ==
  /\ catalog' = loaded.catalog
  /\ segments' = loaded.segments
  /\ wr' = [w \in Writers |-> IdleWriter]
  /\ persist_loop' = [StartedPersistLoop EXCEPT !.failures = persist_loop.failures]
  /\ last_segment_id' = MaxOf(DOMAIN wal \cup DOMAIN store)
  /\ hist' = [hist EXCEPT !.restarts = @ + 1, !.restart = Some(RestartRecord(loaded))]
  /\ UNCHANGED <<reader, locks, call, wal, store, persisted_catalog, now>>

\* the write buffer that WriteBufferImpl::new builds from a loaded state, with
\* a new persist task; when the load failed, line 112-114 returns the error:
\* there is no write buffer to call and no persist task.  (The count of
\* failed uploads is kept over the restart to bound the model.)
Loaded(loaded) ==
  /\ IF loaded.ok
     THEN /\ catalog' = loaded.catalog
          /\ segments' = loaded.segments
          /\ wr' = [w \in Writers |-> IdleWriter]
          /\ persist_loop' = [StartedPersistLoop EXCEPT
                                !.failures = persist_loop.failures]
     ELSE /\ catalog' = EmptyMap
          /\ segments' = EmptyMap
          /\ wr' = [w \in Writers |->
                     [IdleWriter EXCEPT !.pc = "down", !.error = LoadError(loaded)]]
          /\ persist_loop' = [StartedPersistLoop EXCEPT
                                !.running = FALSE,
                                !.failures = persist_loop.failures]
  /\ last_segment_id' = MaxOf(DOMAIN wal \cup DOMAIN store)
  /\ hist' = [hist EXCEPT !.restarts = @ + 1, !.restart = Some(RestartRecord(loaded))]
  /\ UNCHANGED <<reader, locks, call, wal, store, persisted_catalog, now>>

\* WriteBufferImpl::new, lines 112-153, after the write buffer was dropped
\* with no call in progress
Restart ==
  /\ \A w \in Writers : AtRest(w)
  /\ hist.restarts < MaxRestarts
  /\ \E bad \in CorruptFiles : Loaded(LoadStartingState(bad))

Next ==
  \/ \E w \in Writers, r \in WriteRequests : ParseValidate(w, r)
  \/ \E w \in Writers : UpdateCatalog(w)
  \/ \E w \in Writers : FlushAppend(w)
  \/ \E w \in Writers : FlushAppendFail(w)
  \/ \E w \in Writers : FlushApply(w)
  \/ \E w \in Writers : WriteLpReturn(w)
  \/ \E t \in ScanTimes : PersistClose(t)
  \/ \E id \in DOMAIN segments : PersistUpload(id)
  \/ \E id \in DOMAIN segments : PersistCleanup(id)
  \/ Restart

Spec == Init /\ [][Next]_vars

(***************************************************************************)
(* One run of the write buffer with its persist task: the writers, the     *)
(* scans of the persist loop with uploads that can fail, and the shutdown  *)
(* signal.                                                                 *)
(***************************************************************************)
NextPersist ==
  \/ \E w \in Writers, r \in WriteRequests : ParseValidate(w, r)
  \/ \E w \in Writers : UpdateCatalog(w)
  \/ \E w \in Writers : FlushAppend(w)
  \/ \E w \in Writers : FlushAppendFail(w)
  \/ \E w \in Writers : FlushApply(w)
  \/ \E w \in Writers : WriteLpReturn(w)
  \/ \E t \in ScanTimes : PersistClose(t)
  \/ \E id \in DOMAIN segments : PersistUpload(id)
  \/ \E id \in DOMAIN segments : PersistUploadFail(id)
  \/ \E id \in DOMAIN segments : PersistCleanup(id)
  \/ Shutdown
  \/ PersistExit

SpecPersist == Init /\ [][NextPersist]_vars

\* the persist task and the flusher are tasks of the runtime that are not
\* stopped: a step of theirs that stays possible is taken
FairSpecPersist ==
  /\ SpecPersist
  /\ WF_vars(\E w \in Writers : FlushApply(w))
  /\ WF_vars(\E t \in ScanTimes : PersistClose(t))
  /\ WF_vars(\E id \in DOMAIN segments : PersistUpload(id))
  /\ WF_vars(\E id \in DOMAIN segments : PersistCleanup(id))
  /\ WF_vars(PersistExit)

(***************************************************************************)
(* get_table_chunks: a reader looks up the table in the catalog, clones    *)
(* the table buffers under the read lock of the segment state, and builds  *)
(* its chunks from the clones after the lock is released.                  *)
(***************************************************************************)
\* the (database, table) pairs the reader asks for
ReadRequests == {<<"foo", "cpu">>, <<"foo", "mem">>, <<"baz", "cpu">>}

\* lines 200-208: db_schema and the table of the schema, or the error
GetTableChunksSchema(q) ==
  /\ reader.pc \in {"idle", "done", "err"}
  /\ reader.reads < MaxReads
  /\ reader' =
       IF q[1] \notin DOMAIN catalog
       THEN [IdleReader EXCEPT !.pc = "err", !.reads = reader.reads + 1,
                               !.error = Some("db not found")]
       ELSE IF q[2] \notin DOMAIN catalog[q[1]].schema.tables
       THEN [IdleReader EXCEPT !.pc = "err", !.reads = reader.reads + 1,
                               !.error = Some("table not found")]
       ELSE [IdleReader EXCEPT !.pc = "schema", !.reads = reader.reads + 1,
                               !.req = Some(q),
                               !.table = Some(catalog[q[1]].schema.tables[q[2]])]
  /\ UNCHANGED <<catalog, wr, segments, last_segment_id, wal, store,
                 persisted_catalog, now, persist_loop, locks, call, hist>>

\* lines 210 and 242-246: clone_table_buffers under the read lock, which is
\* not granted while the flusher holds the write lock
CloneTableBuffersCall ==
  /\ reader.pc = "schema"
  /\ Flushing = {}
  /\ reader' = [reader EXCEPT
                  !.pc = "cloned",
                  !.held = CloneTableBuffers(segments, reader.req[1][1], reader.req[1][2]),
                  !.at_call = CloneTableBuffers(segments, reader.req[1][1], reader.req[1][2])]
  /\ UNCHANGED <<catalog, wr, segments, last_segment_id, wal, store,
                 persisted_catalog, now, persist_loop, locks, call, hist>>

\* the rows of a table buffer, as the record batch of a chunk
RowsToRecordBatch(table_buffer) ==
  LET Plain(e) == e.row
  IN  SeqMap(Plain, table_buffer)

\* a reader whose table buffers are the buffers of the segment state, read
\* when the chunks are built
GetTableChunksCollectShared ==
  /\ reader.pc = "cloned"
  /\ reader' = [reader EXCEPT
                  !.pc = "done",
                  !.chunks = [id \in DOMAIN CloneTableBuffers(segments, reader.req[1][1],
                                                              reader.req[1][2]) |->
                                RowsToRecordBatch(
                                  CloneTableBuffers(segments, reader.req[1][1],
                                                    reader.req[1][2])[id])]]
  /\ UNCHANGED <<catalog, wr, segments, last_segment_id, wal, store,
                 persisted_catalog, now, persist_loop, locks, call, hist>>

\* lines 211-238: one chunk per cloned table buffer
GetTableChunksCollect ==
  /\ reader.pc = "cloned"
  /\ reader' = [reader EXCEPT
                  !.pc = "done",
                  !.chunks = [id \in DOMAIN reader.held |->
                                RowsToRecordBatch(reader.held[id])]]
  /\ UNCHANGED <<catalog, wr, segments, last_segment_id, wal, store,
                 persisted_catalog, now, persist_loop, locks, call, hist>>

NextRead ==
  \/ \E w \in Writers, r \in WriteRequests : ParseValidate(w, r)
  \/ \E w \in Writers : UpdateCatalog(w)
  \/ \E w \in Writers : FlushAppend(w)
  \/ \E w \in Writers : FlushAppendFail(w)
  \/ \E w \in Writers : FlushApply(w)
  \/ \E w \in Writers : WriteLpReturn(w)
  \/ \E t \in ScanTimes : PersistClose(t)
  \/ \E id \in DOMAIN segments : PersistUpload(id)
  \/ \E id \in DOMAIN segments : PersistCleanup(id)
  \/ \E q \in ReadRequests : GetTableChunksSchema(q)
  \/ CloneTableBuffersCall
  \/ GetTableChunksCollect

SpecRead == Init /\ [][NextRead]_vars

\* the step in which the flusher takes a queued call: its append is done or
\* has failed
FlusherTurn ==
  \E w \in Writers : FlusherTakes(w) /\ wr'[w].pc \in {"applying", "err"}

\* weak fairness of the flusher's turn, spelled out: the flusher does not stay
\* idle for ever with a call in its queue
FlusherIsFair ==
  \/ []<>(\A w \in Writers : ~FlusherTakes(w))
  \/ []<><<FlusherTurn>>_vars

\* the calls queue in the flusher, which takes a queued call when it is idle
\* and, with a WAL whose appends complete, gets to its apply and its answer;
\* the task of a caller that has its answer is run again
FairSpecRead ==
  /\ SpecRead
  /\ FlusherIsFair
  /\ WF_vars(\E w \in Writers : FlushApply(w))
  /\ WF_vars(\E w \in Writers : WriteLpReturn(w))

(***************************************************************************)
(* The locks.  The catalog and the segment state each sit behind one       *)
(* reader-writer lock.  An operation is the sequence of its lock steps;    *)
(* a task at an acquire step waits until the lock can be granted.          *)
(***************************************************************************)
Acquire(lock, mode) == [op |-> "acquire", lock |-> lock, mode |-> mode]

Release(lock) == [op |-> "release", lock |-> lock, mode |-> "none"]

\* write_lp, lines 169-181: db_or_create, then replace_database when the
\* validation returned a schema, each taking and releasing the catalog lock
\* inside the call; then write_to_open_segment, where the flusher takes the
\* write lock of the segment state for the append and the apply
WriteLpLocks(update) ==
  <<Acquire("catalog", "write"), Release("catalog")>>
  \o (IF update THEN <<Acquire("catalog", "write"), Release("catalog")>> ELSE <<>>)
  \o <<Acquire("segment_state", "write"), Release("segment_state")>>

\* a get_table_chunks that keeps the read lock of the catalog while it clones
\* the table buffers
GetTableChunksLocksNested ==
  <<Acquire("catalog", "read"),
    Acquire("segment_state", "read"), Release("segment_state"),
    Release("catalog")>>

\* get_table_chunks, lines 200-210 and 242-246: db_schema returns the schema
\* and releases the catalog; clone_table_buffers takes the read lock of the
\* segment state and drops it on return
GetTableChunksLocks ==
  <<Acquire("catalog", "read"), Release("catalog"),
    Acquire("segment_state", "read"), Release("segment_state")>>

\* one scan of the persist loop: close the segments under the write lock,
\* read the catalog to persist it with the segment, delete the WAL file and
\* drop the segment under the write lock
PersistLoopLocks ==
  <<Acquire("segment_state", "write"), Release("segment_state"),
    Acquire("catalog", "read"), Release("catalog"),
    Acquire("segment_state", "write"), Release("segment_state")>>

\* the lock steps of the operation of a task; the first caller finds new
\* columns and replaces the schema, the second does not
Program(a) ==
  CASE a = "w1" -> WriteLpLocks(TRUE)
    [] a = "w2" -> WriteLpLocks(FALSE)
    [] a = "reader" -> GetTableChunksLocks
    [] a = "persist" -> PersistLoopLocks

Finished(a) == locks.pc[a] > Len(Program(a))

NextStep(a) == Program(a)[locks.pc[a]]

\* the modes in which other tasks hold a lock
HeldByOthers(a, lock) ==
  {h.mode : h \in UNION {{x \in locks.held[b] : x.lock = lock} : b \in Actors \ {a}}}

\* a reader-writer lock: many readers or one writer
Grantable(a, lock, mode) ==
  IF mode = "read" THEN "write" \notin HeldByOthers(a, lock)
  ELSE HeldByOthers(a, lock) = {}

\* the task waits for a lock that another task holds
Waiting(a) ==
  /\ ~Finished(a)
  /\ NextStep(a).op = "acquire"
  /\ ~Grantable(a, NextStep(a).lock, NextStep(a).mode)

\* a task takes the lock of its next step
LockAcquire(a) ==
  /\ ~Finished(a)
  /\ NextStep(a).op = "acquire"
  /\ Grantable(a, NextStep(a).lock, NextStep(a).mode)
  /\ locks' = [locks EXCEPT
                 !.held[a] = @ \cup {[lock |-> NextStep(a).lock, mode |-> NextStep(a).mode]},
                 !.pc[a] = @ + 1]
  /\ UNCHANGED <<catalog, wr, segments, last_segment_id, wal, store,
                 persisted_catalog, now, persist_loop, reader, call, hist>>

\* a task releases the lock of its next step
LockRelease(a) ==
  /\ ~Finished(a)
  /\ NextStep(a).op = "release"
  /\ locks' = [locks EXCEPT
                 !.held[a] = {h \in @ : h.lock # NextStep(a).lock},
                 !.pc[a] = @ + 1]
  /\ UNCHANGED <<catalog, wr, segments, last_segment_id, wal, store,
                 persisted_catalog, now, persist_loop, reader, call, hist>>

NextLocks ==
  \/ \E a \in Actors : LockAcquire(a)
  \/ \E a \in Actors : LockRelease(a)

SpecLocks == Init /\ [][NextLocks]_vars

(***************************************************************************)
(* The row time in 64 bits.  An i64 is held as a sign and a magnitude in   *)
(* base 1000, least significant limb first, without leading zero limbs,    *)
(* so that literals and products beyond 32 bits are exact.                 *)
(***************************************************************************)
Pos(mag) == [neg |-> FALSE, mag |-> mag]

Neg(mag) == [neg |-> TRUE, mag |-> mag]

\* 2^63 and 2^64
Two63 == <<808, 775, 854, 36, 372, 223, 9>>
Two64 == <<616, 551, 709, 73, 744, 446, 18>>

RECURSIVE MagLessFrom(_, _, _)
\* a < b for magnitudes of one length, compared from limb i downward
MagLessFrom(a, b, i) ==
  IF i = 0 THEN FALSE
  ELSE IF a[i] # b[i] THEN a[i] < b[i]
  ELSE MagLessFrom(a, b, i - 1)

MagLess(a, b) ==
  IF Len(a) # Len(b) THEN Len(a) < Len(b) ELSE MagLessFrom(a, b, Len(a))

RECURSIVE Trimmed(_)
\* without leading zero limbs
Trimmed(a) ==
  IF a # <<>> /\ a[Len(a)] = 0 THEN Trimmed(SubSeq(a, 1, Len(a) - 1)) ELSE a

RECURSIVE MagSubFrom(_, _, _, _)
\* the limbs of a - b from limb i upward, with the borrow of the limbs below
MagSubFrom(a, b, i, borrow) ==
  IF i > Len(a) THEN <<>>
  ELSE LET d == a[i] - (IF i <= Len(b) THEN b[i] ELSE 0) - borrow
       IN  IF d < 0 THEN <<d + 1000>> \o MagSubFrom(a, b, i + 1, 1)
           ELSE <<d>> \o MagSubFrom(a, b, i + 1, 0)

\* a - b for a >= b
MagSub(a, b) == Trimmed(MagSubFrom(a, b, 1, 0))

\* a * 1000^k
MagShift(a, k) == IF a = <<>> THEN <<>> ELSE [i \in 1..k |-> 0] \o a

\* the value is in the range of i64
FitsI64(x) ==
  IF x.neg THEN ~MagLess(Two63, x.mag) ELSE MagLess(x.mag, Two63)

RECURSIVE MagTimesFrom(_, _, _, _)
\* the limbs of a * m from limb i upward, with the carry of the limbs below,
\* for m below 1000
MagTimesFrom(a, m, i, carry) ==
  IF i > Len(a) THEN (IF carry = 0 THEN <<>> ELSE <<carry>>)
  ELSE <<(a[i] * m + carry) % 1000>>
         \o MagTimesFrom(a, m, i + 1, (a[i] * m + carry) \div 1000)

\* a * m for m below 1000
MagTimes(a, m) == IF m = 0 THEN <<>> ELSE MagTimesFrom(a, m, 1, 0)

RECURSIVE MagModFrom(_, _, _)
\* a modulo m by long division, from the quotient limb k downward
MagModFrom(a, m, k) ==
  LET d == MagShift(m, k)
      q == CHOOSE q \in 0..999 :
             /\ ~MagLess(a, MagTimes(d, q))
             /\ MagLess(a, MagTimes(d, q + 1))
      rest == MagSub(a, MagTimes(d, q))
  IN  IF k = 0 THEN rest ELSE MagModFrom(rest, m, k - 1)

\* a modulo m
MagMod(a, m) ==
  IF Len(a) < Len(m) THEN a ELSE MagModFrom(a, m, Len(a) - Len(m))

\* the value modulo 2^64, in the range of i64
WrapI64(x) ==
  LET r == MagMod(x.mag, Two64)
  IN  IF r = <<>> THEN Pos(<<>>)
      ELSE IF x.neg
      THEN (IF MagLess(Two63, r) THEN Pos(MagSub(Two64, r)) ELSE Neg(r))
      ELSE (IF MagLess(r, Two63) THEN Pos(r) ELSE Neg(MagSub(Two64, r)))

\* the limbs the multiplier of a precision shifts by: 1000^k
MultiplierLimbs(precision) ==
  CASE precision = "Second" -> 3
    [] precision = "Millisecond" -> 2
    [] precision = "Microsecond" -> 1
    [] precision = "Nanosecond" -> 0

\* the precisions Auto can resolve to: guess_precision picks one of the four
\* from the size of the literal
EffectivePrecisions(precision) ==
  IF precision = "Auto" THEN Precisions ELSE {precision}

\* ts * multiplier without a bound on the result
ExactProduct(ts, precision) ==
  [neg |-> ts.neg, mag |-> MagShift(ts.mag, MultiplierLimbs(precision))]

\* a multiplication that is exact whatever the size of the product
TimesMultiplierUnbounded(ts, precision) ==
  {[kind |-> "value", value |-> ExactProduct(ts, precision), effective |-> precision]}

\* line 638, ts * multiplier on i64: the product when it fits; when it does
\* not, a panic in a build with overflow checks and the wrapped product in a
\* build without
TimesMultiplier(ts, precision) ==
  IF FitsI64(ExactProduct(ts, precision))
  THEN {[kind |-> "value", value |-> ExactProduct(ts, precision), effective |-> precision]}
  ELSE {[kind |-> "panic", value |-> Pos(<<>>), effective |-> precision],
        [kind |-> "value", value |-> WrapI64(ExactProduct(ts, precision)),
         effective |-> precision]}

\* lines 620-640: the row time of a line with the literal ts, or without one
TimeValueNanosI64(timestamp, precision, ingest_time) ==
  IF timestamp = NoneOpt
  THEN {[kind |-> "value", value |-> ingest_time, effective |-> precision]}
  ELSE UNION {TimesMultiplier(timestamp[1], p) : p \in EffectivePrecisions(precision)}

\* timestamp literals the parser accepts: 0, 10, 400, -1, -400, 1_700_000_000,
\* 9_223_372_036, 9_223_372_037, 10_000_000_000, -9_223_372_037,
\* 1_700_000_000_000, 9_223_372_036_854 and 9_223_372_036_855
TimestampLiterals ==
  {Pos(<<>>), Pos(<<10>>), Pos(<<400>>), Neg(<<1>>), Neg(<<400>>),
   Pos(<<0, 0, 700, 1>>), Pos(<<36, 372, 223, 9>>), Pos(<<37, 372, 223, 9>>),
   Pos(<<0, 0, 0, 10>>), Neg(<<37, 372, 223, 9>>), Pos(<<0, 0, 0, 700, 1>>),
   Pos(<<854, 36, 372, 223, 9>>), Pos(<<855, 36, 372, 223, 9>>)}

\* the arguments of the row time: a line with a literal or without one, the
\* precision of the write, and the ingest time 123 ns
TimeArgs ==
  {[timestamp |-> ts, precision |-> p, ingest_time |-> Pos(<<123>>)] :
     ts \in {NoneOpt} \cup {Some(l) : l \in TimestampLiterals},
     p \in Precisions \cup {"Auto"}}

InitTime ==
  /\ catalog = EmptyMap
  /\ wr = [w \in Writers |-> IdleWriter]
  /\ segments = EmptyMap
  /\ last_segment_id = 0
  /\ wal = EmptyMap
  /\ store = EmptyMap
  /\ persisted_catalog = EmptyMap
  /\ now = 0
  /\ persist_loop = StartedPersistLoop
  /\ reader = IdleReader
  /\ locks = NoLocks
  /\ call \in {[fn |-> "time_value_nanos", args |-> a, result |-> NoneOpt] : a \in TimeArgs}
  /\ hist = [calls |-> 0, acked |-> {}, appended |-> <<>>, applied |-> <<>>,
             restarts |-> 0, restart |-> NoneOpt,
             upload_failed |-> {}]

\* the row time of the line is computed
TimeValue ==
  /\ call.fn = "time_value_nanos"
  /\ call.result = NoneOpt
  /\ \E o \in TimeValueNanosI64(call.args.timestamp, call.args.precision,
                                call.args.ingest_time) :
       call' = [call EXCEPT !.result = Some(o)]
  /\ UNCHANGED <<catalog, wr, segments, last_segment_id, wal, store,
                 persisted_catalog, now, persist_loop, reader, locks, hist>>

NextTime == TimeValue

SpecTime == InitTime /\ [][NextTime]_vars

(***************************************************************************)
(* Object-store paths.  A path is the sequence of the character codes of   *)
(* its text; an id (a u32) is a magnitude in base 1000.  The names used    *)
(* here hold no character that an object-store path escapes.               *)
(***************************************************************************)
\* u32::MAX, 4_294_967_295
U32Max == <<295, 967, 294, 4>>

\* the texts "catalogs/", "segments/", "dbs/", "/", "-" and the extensions
\* ".json", ".info.json", ".parquet"
CatalogsDir == <<99, 97, 116, 97, 108, 111, 103, 115, 47>>
SegmentsDir == <<115, 101, 103, 109, 101, 110, 116, 115, 47>>
DbsDir == <<100, 98, 115, 47>>
Slash == <<47>>
Dash == <<45>>
CATALOG_FILE_EXTENSION == <<106, 115, 111, 110>>
SEGMENT_INFO_FILE_EXTENSION == <<105, 110, 102, 111, 46, 106, 115, 111, 110>>
PARQUET_FILE_EXTENSION == <<112, 97, 114, 113, 117, 101, 116>>
Dot == <<46>>

\* the decimal digits of a number below 1000, as character codes, at least
\* width of them
RECURSIVE DigitsOfSmall(_, _)
DigitsOfSmall(n, width) ==
  IF n < 10 /\ width <= 1 THEN <<48 + n>>
  ELSE DigitsOfSmall(n \div 10, width - 1) \o <<48 + (n % 10)>>

RECURSIVE DigitsFrom(_, _)
\* the digits of the limbs 1..i of a magnitude, three for each limb
DigitsFrom(mag, i) ==
  IF i = 0 THEN <<>> ELSE DigitsOfSmall(mag[i], 3) \o DigitsFrom(mag, i - 1)

\* the decimal text of a number, "{}"
Display(mag) ==
  IF mag = <<>> THEN <<48>>
  ELSE DigitsOfSmall(mag[Len(mag)], 1) \o DigitsFrom(mag, Len(mag) - 1)

\* a text padded with zeros on the left to the width, "{:0width}"
ZeroPadded(text, width) ==
  [i \in 1..(IF Len(text) < width THEN width - Len(text) ELSE 0) |-> 48] \o text

\* the numeric component printed without padding
PathNumberUnpadded(id) == Display(MagSub(U32Max, id))

\* format!("{:010}", u32::MAX - id)
PathNumber(id) == ZeroPadded(Display(MagSub(U32Max, id)), 10)

\* date.format("%Y-%m-%d")
FormatDate(date) ==
  DigitsOfSmall(date.year \div 100, 2) \o DigitsOfSmall(date.year % 100, 2)
    \o Dash \o DigitsOfSmall(date.month, 2) \o Dash \o DigitsOfSmall(date.day, 2)

\* CatalogFilePath::new
CatalogFilePath(segment_id) ==
  CatalogsDir \o PathNumber(segment_id) \o Dot \o CATALOG_FILE_EXTENSION

\* SegmentInfoFilePath::new
SegmentInfoFilePath(segment_id) ==
  SegmentsDir \o PathNumber(segment_id) \o Dot \o SEGMENT_INFO_FILE_EXTENSION

\* ParquetFilePath::new
ParquetFilePath(db_name, table_name, date, file_number) ==
  DbsDir \o db_name \o Slash \o table_name \o Slash \o FormatDate(date) \o Slash
    \o PathNumber(file_number) \o Dot \o PARQUET_FILE_EXTENSION

\* the extension "wal"
SEGMENT_WAL_FILE_EXTENSION == <<119, 97, 108>>

\* PathBuf::push of a relative name: the name after the path, with a
\* separator between them unless the path is empty or ends with one
PathBufPush(path, name) ==
  IF path = <<>> \/ path[Len(path)] = 47 THEN path \o name ELSE path \o Slash \o name

\* PathBuf::set_extension on a path whose file name holds no dot
SetExtension(path, extension) == path \o Dot \o extension

\* the file name of a WAL file printed without padding
WalFileNameUnpadded(id) == Display(id)

\* format!("{:010}", segment_id.0)
WalFileName(id) == ZeroPadded(Display(id), 10)

\* SegmentWalFilePath::new
SegmentWalFilePath(dir, segment_id) ==
  SetExtension(PathBufPush(dir, WalFileName(segment_id)), SEGMENT_WAL_FILE_EXTENSION)

\* the directories "dir", "wal/a" and "dir/"
WalDirs == {<<100, 105, 114>>, <<119, 97, 108, 47, 97>>, <<100, 105, 114, 47>>}

\* the ids 0, 1, 9, 10, 99, 100, 294_967_295, 294_967_296, 3_294_967_296,
\* 4_294_967_285, 4_294_967_286, 4_294_967_294 and 4_294_967_295
PathIds ==
  {<<>>, <<1>>, <<9>>, <<10>>, <<99>>, <<100>>, <<295, 967, 294>>,
   <<296, 967, 294>>, <<296, 967, 294, 3>>, <<285, 967, 294, 4>>,
   <<286, 967, 294, 4>>, <<294, 967, 294, 4>>, <<295, 967, 294, 4>>}

\* the database "foo", the table "cpu"
PathDb == <<102, 111, 111>>
PathTable == <<99, 112, 117>>

PathDates == {[year |-> 2038, month |-> 1, day |-> 19],
              [year |-> 1970, month |-> 12, day |-> 1]}

\* the paths of one kind built for two ids
PathArgs ==
  {[kind |-> k, a |-> a, b |-> b, date |-> d] :
     k \in {"catalog", "segment_info"}, a \in PathIds, b \in PathIds,
     d \in {CHOOSE d \in PathDates : TRUE}}
  \cup {[kind |-> "parquet", a |-> a, b |-> b, date |-> d] :
     a \in PathIds, b \in PathIds, d \in PathDates}

PathNew(kind, id, date) ==
  CASE kind = "catalog" -> CatalogFilePath(id)
    [] kind = "segment_info" -> SegmentInfoFilePath(id)
    [] kind = "parquet" -> ParquetFilePath(PathDb, PathTable, date, id)

InitPaths ==
  /\ catalog = EmptyMap
  /\ wr = [w \in Writers |-> IdleWriter]
  /\ segments = EmptyMap
  /\ last_segment_id = 0
  /\ wal = EmptyMap
  /\ store = EmptyMap
  /\ persisted_catalog = EmptyMap
  /\ now = 0
  /\ persist_loop = StartedPersistLoop
  /\ reader = IdleReader
  /\ locks = NoLocks
  /\ call \in {[fn |-> "path_new", args |-> a, result |-> NoneOpt] : a \in PathArgs}
  /\ hist = [calls |-> 0, acked |-> {}, appended |-> <<>>, applied |-> <<>>,
             restarts |-> 0, restart |-> NoneOpt,
             upload_failed |-> {}]

\* the two paths are built
PathsBuilt ==
  /\ call.fn = "path_new"
  /\ call.result = NoneOpt
  /\ call' = [call EXCEPT !.result =
                Some([a |-> PathNew(call.args.kind, call.args.a, call.args.date),
                      b |-> PathNew(call.args.kind, call.args.b, call.args.date)])]
  /\ UNCHANGED <<catalog, wr, segments, last_segment_id, wal, store,
                 persisted_catalog, now, persist_loop, reader, locks, hist>>

NextPaths == PathsBuilt

SpecPaths == InitPaths /\ [][NextPaths]_vars

WalPathArgs == {[dir |-> d, a |-> a, b |-> b] : d \in WalDirs, a \in PathIds, b \in PathIds}

InitWalPaths ==
  /\ catalog = EmptyMap
  /\ wr = [w \in Writers |-> IdleWriter]
  /\ segments = EmptyMap
  /\ last_segment_id = 0
  /\ wal = EmptyMap
  /\ store = EmptyMap
  /\ persisted_catalog = EmptyMap
  /\ now = 0
  /\ persist_loop = StartedPersistLoop
  /\ reader = IdleReader
  /\ locks = NoLocks
  /\ call \in {[fn |-> "wal_path_new", args |-> a, result |-> NoneOpt] : a \in WalPathArgs}
  /\ hist = [calls |-> 0, acked |-> {}, appended |-> <<>>, applied |-> <<>>,
             restarts |-> 0, restart |-> NoneOpt,
             upload_failed |-> {}]

\* the WAL file paths of two segments are built
WalPathsBuilt ==
  /\ call.fn = "wal_path_new"
  /\ call.result = NoneOpt
  /\ call' = [call EXCEPT !.result =
                Some([a |-> SegmentWalFilePath(call.args.dir, call.args.a),
                      b |-> SegmentWalFilePath(call.args.dir, call.args.b)])]
  /\ UNCHANGED <<catalog, wr, segments, last_segment_id, wal, store,
                 persisted_catalog, now, persist_loop, reader, locks, hist>>

NextWalPaths == WalPathsBuilt

SpecWalPaths == InitWalPaths /\ [][NextWalPaths]_vars

(***************************************************************************)
(* The validation alone: one call of parse_validate_and_update_catalog on  *)
(* any line-protocol text of at most MaxLines lines, against a catalog     *)
(* that earlier writes left.                                               *)
(***************************************************************************)
RECURSIVE SeqsUpTo(_, _)
\* the sequences over S of length at most n
SeqsUpTo(S, n) ==
  IF n = 0 THEN {<<>>}
  ELSE LET shorter == SeqsUpTo(S, n - 1)
       IN  shorter \cup {Append(q, x) : q \in shorter, x \in S}

ValidationRequests ==
  { WriteRequest("foo", lp, IngestTime, accept_partial, precision) :
      lp \in SeqsUpTo(Lines, MaxLines), accept_partial \in BOOLEAN,
      precision \in {"Nanosecond", "Second"} }

CatalogOf(lp) ==
  LET result == ParseValidateAndUpdateSchema(lp, NewDatabaseSchema("foo"), "foo",
                                             IngestTime, FALSE, "Nanosecond")
  IN  ReplaceDatabase(DbOrCreate(EmptyMap, "foo"), 0, result.schema[1])

\* the catalogs the validation starts from: empty, and as left by the write
\* of `cpu bar=1 10` and by the write of `cpu,region=west user=23.2 100`
StartCatalogs == {EmptyMap, CatalogOf(<<LCpuBar>>), CatalogOf(<<LCpuRegionUser>>)}

InitValidate ==
  /\ catalog \in StartCatalogs
  /\ wr = [w \in Writers |-> IdleWriter]
  /\ segments = EmptyMap
  /\ last_segment_id = 0
  /\ wal = EmptyMap
  /\ store = EmptyMap
  /\ persisted_catalog = EmptyMap
  /\ now = 0
  /\ persist_loop = StartedPersistLoop
  /\ reader = IdleReader
  /\ locks = NoLocks
  /\ call = NoCall
  /\ hist = [calls |-> 0, acked |-> {}, appended |-> <<>>, applied |-> <<>>,
             restarts |-> 0, restart |-> NoneOpt,
             upload_failed |-> {}]

ValidateOnce(r) == hist.calls = 0 /\ ParseValidate("w1", r)

NextValidate == \E r \in ValidationRequests : ValidateOnce(r)

SpecValidate == InitValidate /\ [][NextValidate]_vars

(***************************************************************************)
(* Two callers of write_lp on a database that holds the table cpu with the *)
(* column bar already, as an earlier write of `cpu bar=1 10` left it.      *)
(***************************************************************************)
InitSettled == InitValidate /\ catalog = CatalogOf(<<LCpuBar>>)

NextSettled ==
  \/ \E w \in Writers, r \in WriteRequests : ParseValidate(w, r)
  \/ \E w \in Writers : UpdateCatalog(w)
  \/ \E w \in Writers : FlushAppend(w)
  \/ \E w \in Writers : FlushAppendFail(w)
  \/ \E w \in Writers : FlushApply(w)
  \/ \E w \in Writers : WriteLpReturn(w)

SpecSettled == InitSettled /\ [][NextSettled]_vars

(***************************************************************************)
(* The same text written twice to a new catalog: two calls of              *)
(* parse_validate_and_update_catalog, the second after the first has       *)
(* installed its schema.                                                   *)
(***************************************************************************)
FirstWrite(r) == hist.calls = 0 /\ ParseValidate("w1", r)

SecondWrite ==
  /\ hist.calls = 1
  /\ wr["w1"].pc = "flush"
  /\ ParseValidate("w2", wr["w1"].req[1])

NextTwice ==
  \/ \E r \in ValidationRequests : FirstWrite(r)
  \/ \E w \in Writers : UpdateCatalog(w)
  \/ SecondWrite

SpecTwice == Init /\ [][NextTwice]_vars

(***************************************************************************)
(* Tables and catalog files.  A TableDefinition holds a schema; a catalog  *)
(* file holds a TableSnapshot of it.                                       *)
(***************************************************************************)
\* the InfluxColumnType of a column type of the catalog
InfluxColumnTypeOf(column_type) ==
  CASE column_type = "Tag" -> <<"Tag">>
    [] column_type = "Time" -> <<"Timestamp">>
    [] column_type = "I64" -> <<"Field", "Integer">>
    [] column_type = "F64" -> <<"Field", "Float">>
    [] column_type = "U64" -> <<"Field", "UInteger">>
    [] column_type = "Bool" -> <<"Field", "Boolean">>
    [] column_type = "String" -> <<"Field", "String">>

\* the field a schema builder makes of a column: its Arrow type and whether
\* it is nullable
SchemaField(influx) ==
  CASE influx = <<"Tag">> ->
         [influx |-> influx, data_type |-> <<"Dictionary", "Int32", "Utf8">>, nullable |-> TRUE]
    [] influx = <<"Timestamp">> ->
         [influx |-> influx, data_type |-> <<"Timestamp", "Nanosecond">>, nullable |-> FALSE]
    [] influx = <<"Field", "Integer">> ->
         [influx |-> influx, data_type |-> <<"Int64">>, nullable |-> TRUE]
    [] influx = <<"Field", "Float">> ->
         [influx |-> influx, data_type |-> <<"Float64">>, nullable |-> TRUE]
    [] influx = <<"Field", "UInteger">> ->
         [influx |-> influx, data_type |-> <<"UInt64">>, nullable |-> TRUE]
    [] influx = <<"Field", "Boolean">> ->
         [influx |-> influx, data_type |-> <<"Boolean">>, nullable |-> TRUE]
    [] influx = <<"Field", "String">> ->
         [influx |-> influx, data_type |-> <<"Utf8">>, nullable |-> TRUE]

\* TableDefinition::schema: the schema built of the columns of a table
SchemaOf(t) ==
  [n \in DOMAIN t.columns |-> SchemaField(InfluxColumnTypeOf(t.columns[n]))]

\* From<&ArrowDataType> for DataType
DataTypeFromArrow(arrow_type) ==
  CASE arrow_type = <<"Boolean">> -> <<"Bool">>
    [] arrow_type = <<"Int64">> -> <<"I64">>
    [] arrow_type = <<"UInt64">> -> <<"U64">>
    [] arrow_type = <<"Float32">> -> <<"F32">>
    [] arrow_type = <<"Float64">> -> <<"F64">>
    [] arrow_type = <<"Utf8">> -> <<"Str">>
    [] arrow_type = <<"Int32">> -> <<"I32">>
    [] arrow_type = <<"Timestamp", "Nanosecond">> -> <<"Time", "ns">>
    [] arrow_type = <<"Dictionary", "Int32", "Utf8">> -> <<"Dict", "I32", "Str">>

\* From<DataType> for InfluxFieldType: the field type, or none where the
\* code is unimplemented!
InfluxFieldTypeFrom(data_type) ==
  CASE data_type = <<"Bool">> -> Some("Boolean")
    [] data_type = <<"I64">> -> Some("Integer")
    [] data_type = <<"U64">> -> Some("UInteger")
    [] data_type = <<"F64">> -> Some("Float")
    [] data_type = <<"Str">> -> Some("String")
    [] OTHER -> NoneOpt

ColumnDefinition(name, type, meta, nullable) ==
  [name |-> name, type |-> type, meta |-> meta, nullable |-> nullable]

\* the names of the columns of a schema of one kind: fields_iter, tags_iter,
\* time_iter
ColumnsOfKind(schema, kind) == {n \in DOMAIN schema : schema[n].influx[1] = kind}

\* From<&TableDefinition> for TableSnapshot: the fields, then the tags, then
\* the time column, each under its name
TableSnapshotFrom(name, schema) ==
  LET FieldCol(n) == ColumnDefinition(n, DataTypeFromArrow(schema[n].data_type), "Field",
                                      schema[n].nullable)
      TagCol(n) == ColumnDefinition(n, DataTypeFromArrow(schema[n].data_type), "Tag", TRUE)
      TimeCol(n) == ColumnDefinition(n, DataTypeFromArrow(schema[n].data_type), "Time", FALSE)
      fields == ColumnsOfKind(schema, "Field")
      tags == ColumnsOfKind(schema, "Tag")
      times == ColumnsOfKind(schema, "Timestamp")
  IN  [name |-> name,
       cols |-> [n \in fields \cup tags \cup times |->
                   IF n \in times THEN TimeCol(n)
                   ELSE IF n \in tags THEN TagCol(n)
                   ELSE FieldCol(n)]]

\* the column a schema builder is given for a column of a snapshot:
\* influx_column(name, Tag), influx_field(name, type) or timestamp()
BuilderColumn(col) ==
  CASE col.meta = "Tag" -> <<col.name, <<"Tag">>>>
    [] col.meta = "Field" -> <<col.name, <<"Field", InfluxFieldTypeFrom(col.type)[1]>>>>
    [] col.meta = "Time" -> <<TIME_COLUMN_NAME, <<"Timestamp">>>>

\* From<TableSnapshot> for TableDefinition: the table, or a panic where a
\* field has a type without an InfluxFieldType.  The builder is given
\* columns of different names here.
TableDefinitionFrom(snap) ==
  IF \E k \in DOMAIN snap.cols :
       snap.cols[k].meta = "Field" /\ InfluxFieldTypeFrom(snap.cols[k].type) = NoneOpt
  THEN [kind |-> "panic", name |-> snap.name, schema |-> EmptyMap]
  ELSE [kind |-> "value", name |-> snap.name,
        schema |-> [n \in {BuilderColumn(snap.cols[k])[1] : k \in DOMAIN snap.cols} |->
                      SchemaField(BuilderColumn(snap.cols[
                        CHOOSE k \in DOMAIN snap.cols :
                          BuilderColumn(snap.cols[k])[1] = n])[2])]]

\* cpu time=1 10 and cpu,time=a bar=1 10: a field and a tag named as the
\* time column
LCpuTimeField == Line("point", "cpu", <<>>, << <<"time", "F64">> >>, Some(10))
LCpuTimeTag == Line("point", "cpu", <<"time">>, << <<"bar", "F64">> >>, Some(10))

\* the writes whose tables are written to catalog files
CatalogFileRequests ==
  { WriteRequest("foo", <<LCpuBar>>, IngestTime, FALSE, "Nanosecond"),
    WriteRequest("foo", <<LCpuRegionUser>>, IngestTime, FALSE, "Nanosecond"),
    WriteRequest("foo", <<LCpuTimeField>>, IngestTime, FALSE, "Nanosecond"),
    WriteRequest("foo", <<LCpuTimeTag, LFoo>>, IngestTime, FALSE, "Nanosecond") }

\* the columns a catalog file that is found in object storage can hold under
\* the keys bar, region and time, each under its own name
FileColumnChoices(key) ==
  CASE key = "bar" -> {ColumnDefinition("bar", <<"F64">>, "Field", TRUE),
                       ColumnDefinition("bar", <<"F32">>, "Field", TRUE)}
    [] key = "region" -> {ColumnDefinition("region", <<"Dict", "I32", "Str">>, "Tag", TRUE),
                          ColumnDefinition("region", <<"Dict", "I32", "Str">>, "Tag", FALSE)}
    [] key = "time" -> {ColumnDefinition("time", <<"Time", "ns">>, "Time", FALSE),
                        ColumnDefinition("time", <<"I64">>, "Field", TRUE)}

\* the catalog files found in object storage: every file that holds some of
\* the three keys, without a duplicate key
CatalogFiles ==
  UNION {[name : {"cpu"}, cols : [keys -> UNION {FileColumnChoices(k) : k \in keys}]] :
           keys \in SUBSET {"bar", "region", "time"}}

WellFormedFile(f) == \A k \in DOMAIN f.cols : f.cols[k] \in FileColumnChoices(k)

\* a write is validated
CatalogFileWrite(w) == \E r \in CatalogFileRequests : ParseValidate(w, r)

\* Serialize for TableDefinition: a table of the catalog is written
SerializeTable ==
  /\ \E db \in DOMAIN catalog : \E t \in DOMAIN catalog[db].schema.tables :
       LET def == catalog[db].schema.tables[t]
       IN  call' = [fn |-> "serialize", args |-> def,
                    result |-> Some(TableSnapshotFrom(def.name, SchemaOf(def)))]
  /\ UNCHANGED <<catalog, wr, segments, last_segment_id, wal, store,
                 persisted_catalog, now, persist_loop, reader, locks, hist>>

\* Deserialize for TableDefinition: the file just written is read
DeserializeWritten ==
  /\ call.fn = "serialize"
  /\ call' = [fn |-> "deserialize",
              args |-> [file |-> call.result[1], written |-> TRUE, def |-> Some(call.args)],
              result |-> Some(TableDefinitionFrom(call.result[1]))]
  /\ UNCHANGED <<catalog, wr, segments, last_segment_id, wal, store,
                 persisted_catalog, now, persist_loop, reader, locks, hist>>

\* Deserialize for TableDefinition: a file found in object storage is read
DeserializeFound ==
  /\ \E f \in {f \in CatalogFiles : WellFormedFile(f)} :
       call' = [fn |-> "deserialize",
                args |-> [file |-> f, written |-> FALSE, def |-> NoneOpt],
                result |-> Some(TableDefinitionFrom(f))]
  /\ UNCHANGED <<catalog, wr, segments, last_segment_id, wal, store,
                 persisted_catalog, now, persist_loop, reader, locks, hist>>

NextCatalogFile ==
  \/ \E w \in Writers : CatalogFileWrite(w)
  \/ \E w \in Writers : UpdateCatalog(w)
  \/ SerializeTable
  \/ DeserializeWritten
  \/ DeserializeFound

SpecCatalogFile == Init /\ [][NextCatalogFile]_vars

(***************************************************************************)
(* The bucket of a row: validations of lines with timestamps on both sides *)
(* of zero and of the bucket borders, in the four precisions.              *)
(***************************************************************************)
\* cpu bar=1 <ts> for the literals -1500, -300, -1, 0, 299, 300 and 1500
BucketLine(ts) == Line("point", "cpu", <<>>, << <<"bar", "F64">> >>, Some(ts))

BucketLines == {BucketLine(ts) : ts \in {-1500, -300, -1, 0, 299, 300, 1500}} \cup {LFoo}

BucketRequests ==
  { WriteRequest("foo", lp, IngestTime, FALSE, precision) :
      lp \in SeqsUpTo(BucketLines, 2) \ {<<>>}, precision \in Precisions }

BucketWrite == \E r \in BucketRequests : ValidateOnce(r)

NextBucket == BucketWrite

SpecBucket == Init /\ [][NextBucket]_vars

(***************************************************************************)
(* Properties.                                                             *)
(***************************************************************************)
\* the caller holds the result of a validation that returned Ok
Validated(w) == wr[w].req # NoneOpt /\ wr[w].result # NoneOpt

RECURSIVE SumLens(_)
\* the number of items in the sequences of a map
SumLens(m) ==
  IF DOMAIN m = {} THEN 0
  ELSE LET k == CHOOSE x \in DOMAIN m : TRUE
       IN  Len(m[k]) + SumLens(Remove(m, k))

RECURSIVE RowCount(_)
\* the number of rows in the batches of a validation result
RowCount(data) ==
  IF DOMAIN data = {} THEN 0
  ELSE LET b == CHOOSE x \in DOMAIN data : TRUE
       IN  SumLens(data[b].table_batches) + RowCount(Remove(data, b))

\* some point of the text writes a field under a column of the schema that
\* has another type
HasTypeConflict(lp, schema) ==
  \E i \in DOMAIN lp :
    /\ lp[i].kind = "point"
    /\ lp[i].measurement \in DOMAIN schema.tables
    /\ \E j \in DOMAIN lp[i].field_set :
         LET name == lp[i].field_set[j][1]
             columns == schema.tables[lp[i].measurement].columns
         IN  /\ name \in DOMAIN columns
             /\ columns[name] # ColumnTypeFromField(lp[i].field_set[j][2])

\* C6: a validation of a text with a field written under an existing column
\* of another type returns the error ColumnTypeMismatch.
C6_TypeConflictIsRejected ==
  \A w \in Writers :
    (wr[w].req # NoneOpt /\ HasTypeConflict(wr[w].req[1].lp, wr[w].db[1]))
      => (wr[w].error # NoneOpt /\ wr[w].error[1].kind = "ColumnTypeMismatch")

\* the lines of a text that are not empty
NonEmptyLines(lp) == {i \in DOMAIN lp : lp[i] # LBlank}

\* the lines of a text that are neither blank nor comments
DataLines(lp) == {i \in DOMAIN lp : lp[i].kind \notin {"blank", "comment"}}

\* C10, as claimed: with accept_partial, the rows in the valid batches plus
\* the reported errors are as many as the non-empty lines of the input.
C10_RowsPlusErrorsIsNonEmptyLines ==
  \A w \in Writers :
    (Validated(w) /\ wr[w].req[1].accept_partial)
      => RowCount(wr[w].result[1].valid_segmented_data) + Len(wr[w].result[1].errors)
           = Cardinality(NonEmptyLines(wr[w].req[1].lp))

\* C10, amended: with accept_partial, the rows in the valid batches plus the
\* reported errors are as many as the input lines that are neither blank
\* nor comments.
C10_RowsPlusErrorsIsDataLines ==
  \A w \in Writers :
    (Validated(w) /\ wr[w].req[1].accept_partial)
      => RowCount(wr[w].result[1].valid_segmented_data) + Len(wr[w].result[1].errors)
           = Cardinality(DataLines(wr[w].req[1].lp))

\* C10 witness: a partial validation of a text with a comment that gave a
\* row and an error
C10_Witness ==
  \E w \in Writers :
    /\ Validated(w) /\ wr[w].req[1].accept_partial
    /\ RowCount(wr[w].result[1].valid_segmented_data) = 1
    /\ Len(wr[w].result[1].errors) = 1
    /\ \E i \in DOMAIN wr[w].req[1].lp : wr[w].req[1].lp[i] = LComment

(***************************************************************************)
(* Properties of the write path.                                           *)
(***************************************************************************)
\* the rows of one table of one bucket of an acknowledged batch, as the
\* buffers hold them
BatchRows(a, b, t) ==
  {BufferedRow(a.data[b].table_batches[t][i], a.wid) :
     i \in DOMAIN a.data[b].table_batches[t]}

\* the rows in the buffers a clone_table_buffers call returns
ClonedRows(db_name, table_name) ==
  LET clone == CloneTableBuffers(segments, db_name, table_name)
  IN  UNION {{clone[id][i] : i \in DOMAIN clone[id]} : id \in DOMAIN clone}

\* the rows of a table held by the closed segments in memory and by the
\* object store
ClosedRows(db_name, table_name) ==
  LET key == <<db_name, table_name>>
      RowsIn(buffer) == IF key \in DOMAIN buffer
                        THEN {buffer[key][i] : i \in DOMAIN buffer[key]} ELSE {}
  IN  UNION ({RowsIn(segments[id].buffer) :
                id \in {x \in DOMAIN segments : segments[x].state # "open"}}
             \cup {RowsIn(store[id]) : id \in DOMAIN store})

WalWids(id) == {wal[id].batches[i].wid : i \in DOMAIN wal[id].batches}

\* the calls whose rows the buffer of a segment holds
BufferWids(id) ==
  LET buffer == segments[id].buffer
  IN  UNION {{buffer[key][i].wid : i \in DOMAIN buffer[key]} : key \in DOMAIN buffer}

\* C2: every row in the buffer of a segment belongs to a batch that the WAL
\* file of the segment holds.
C2_BufferedRowsAreInTheWal ==
  \A id \in DOMAIN segments :
    /\ id \in DOMAIN wal
    /\ BufferWids(id) \subseteq WalWids(id)

\* the flusher has appended the batch of a call to the WAL and has not
\* applied it, while the buffers hold the rows of an earlier call
C2_Witness ==
  /\ \E w \in Flushing : \E id \in DOMAIN segments :
       wr[w].wid \in WalWids(id) /\ wr[w].wid \notin BufferWids(id)
  /\ \E id \in DOMAIN segments : BufferWids(id) # {}

\* the WAL holds a batch of the call
WalHolds(i) == \E id \in DOMAIN wal : i \in WalWids(id)

\* every segment whose WAL file holds a batch of the call holds rows of it
BufferHolds(i) ==
  \A id \in DOMAIN wal : i \in WalWids(id) =>
    id \in DOMAIN segments /\ i \in BufferWids(id)

\* the flusher is not stopped between the append and the apply of a call
FairSpec == Spec /\ WF_vars(\E w \in Writers : FlushApply(w))

\* C3: without a restart, a batch that the WAL holds is eventually in the
\* buffer of its segment.
C3_AppendedIsEventuallyApplied ==
  \A i \in 1..MaxWrites :
    (hist.restarts = 0 /\ WalHolds(i)) ~> (BufferHolds(i) \/ hist.restarts > 0)

\* the flusher has answered a call whose batches are in the WAL and in the
\* buffers
C3_Witness ==
  /\ hist.restarts = 0
  /\ \E w \in Writers :
       /\ wr[w].pc = "flushed"
       /\ WalHolds(wr[w].wid)
       /\ BufferHolds(wr[w].wid)

\* s is the start of t
IsPrefix(s, t) == Len(s) <= Len(t) /\ s = SubSeq(t, 1, Len(s))

\* C4: the flusher works on one call at a time, and the calls are applied
\* in the order of their appends.
C4_OneAppendAndApplyAtATime ==
  /\ Cardinality(Flushing) <= 1
  /\ IsPrefix(hist.applied, hist.appended)
  /\ Len(hist.appended) = Len(hist.applied) + Cardinality(Flushing)

\* a call waits in write_to_open_segment while the flusher is between the
\* append and the apply of another
C4_Witness ==
  /\ Flushing # {}
  /\ \E w \in Writers : wr[w].pc = "flush"

\* C5: after a restart that could parse its WAL files, the buffers of the segments that are not persisted
\* are row for row the buffers before the restart.
C5_ReplayReproducesBuffers ==
  (hist.restart # NoneOpt /\ hist.restart[1].corrupt = {}) =>
    /\ hist.restart[1].ok
    /\ hist.restart[1].post = hist.restart[1].pre

\* the columns of the tables of a schema
ColumnsOf(schema) ==
  UNION {{<<t, c, schema.tables[t].columns[c]>> : c \in DOMAIN schema.tables[t].columns} :
           t \in DOMAIN schema.tables}

\* the caller is at replace_database for the database
Replacing(w, db_name) ==
  wr[w].pc = "replace" /\ wr[w].result[1].schema[1].name = db_name

\* C7: a step of the write path changes the entry of a database only by a
\* replace_database whose expected sequence is the stored one; it installs
\* the schema of the caller with the next sequence and keeps every column
\* installed before.  A replace_database with another expected sequence
\* fails with a Conflict and changes nothing.
C7_ReplaceIsCompareAndSwap ==
  [][hist'.restarts = hist.restarts =>
       /\ \A db_name \in DOMAIN catalog :
            /\ db_name \in DOMAIN catalog'
            /\ \/ catalog'[db_name] = catalog[db_name]
               \/ /\ catalog'[db_name].sequence = catalog[db_name].sequence + 1
                  /\ ColumnsOf(catalog[db_name].schema)
                       \subseteq ColumnsOf(catalog'[db_name].schema)
                  /\ \E w \in Writers :
                       /\ Replacing(w, db_name)
                       /\ wr[w].sequence = catalog[db_name].sequence
                       /\ wr'[w].pc = "flush"
                       /\ catalog'[db_name].schema = wr[w].result[1].schema[1]
       /\ \A w \in Writers :
            (/\ wr[w].pc = "replace"
             /\ wr'[w].pc # "replace"
             /\ wr[w].sequence # catalog[wr[w].result[1].schema[1].name].sequence)
            => /\ catalog' = catalog
               /\ wr'[w].pc = "err"
               /\ wr'[w].error = Some([kind |-> "CatalogUpdateError", line |-> NoneOpt])
  ]_vars

\* the call returned the error of a replace_database that found another
\* sequence
Conflicted(w) ==
  /\ wr[w].pc = "err"
  /\ wr[w].error = Some([kind |-> "CatalogUpdateError", line |-> NoneOpt])

\* of two calls that changed the schema of one database, one installed its
\* schema and the other got a Conflict
C7_Witness ==
  /\ hist.restarts = 0
  /\ \E w \in Writers : Conflicted(w)
  /\ \E db_name \in DOMAIN catalog :
       catalog[db_name].sequence = 1 /\ ColumnsOf(catalog[db_name].schema) # {}

\* C8: a write_lp call does not return the Conflict of replace_database to
\* its caller: it validates again and retries.
C8_ConflictIsRetried ==
  \A w \in Writers : ~Conflicted(w)

\* the call failed with a parse error or with a catalog Conflict
FailedInValidation(w) ==
  /\ wr[w].pc = "err"
  /\ wr[w].error # NoneOpt
  /\ wr[w].error[1].kind \in {"ParseError", "CatalogUpdateError"}

\* C9: a write_lp call that fails with a parse error or a catalog Conflict
\* has changed neither the catalog, nor the WAL, nor a buffer.
C9_FailedCallMutatesNothing ==
  \A w \in Writers : FailedInValidation(w) => ~wr[w].mutated

(***************************************************************************)
(* Properties of the reported errors and of the logged text.               *)
(***************************************************************************)
\* C11: every reported line error carries the line that failed to parse
\* and the position of that line in the input.
C11_ErrorsNameTheFailedLine ==
  \A w \in Writers :
    Validated(w) =>
      \A i \in DOMAIN wr[w].result[1].errors :
        LET e == wr[w].result[1].errors[i]
            lp == wr[w].req[1].lp
        IN  /\ e.original_line.kind = "bad"
            /\ e.line_number \in DOMAIN lp
            /\ lp[e.line_number] = e.original_line

\* the bucket of the row of a point
SegmentStartOf(line, ingest_time, precision) ==
  StartTime(NanosDivSecs(LineTime(line, ingest_time, precision)))

\* the points of a text whose rows are in the bucket, in input order
LinesOfBucket(r, segment_start) ==
  LET InBucket(l) == /\ l.kind = "point"
                     /\ SegmentStartOf(l, r.ingest_time, r.precision) = segment_start
  IN  SelectSeq(r.lp, InBucket)

\* C12: the WAL op of every batch holds the text of the valid lines whose
\* rows are in the batch, in input order, the name of the database and the
\* ingest time.
C12_WalOpHoldsTheLinesOfItsBatch ==
  \A w \in Writers :
    Validated(w) =>
      \A b \in DOMAIN wr[w].result[1].valid_segmented_data :
        LET wal_op == wr[w].result[1].valid_segmented_data[b].wal_op
        IN  /\ wal_op.lp = LinesOfBucket(wr[w].req[1], b)
            /\ wal_op.db_name = wr[w].req[1].db_name
            /\ wal_op.default_time = wr[w].req[1].ingest_time

(***************************************************************************)
(* Properties of the persist loop and of the WAL.                          *)
(***************************************************************************)
\* the ids of the segments created so far
CreatedIds == 1..last_segment_id

\* C13: the WAL file of a segment is gone only if the segment is written to
\* object storage.
C13_WalFileOutlivesItsUpload ==
  \A id \in CreatedIds : id \in DOMAIN wal \/ id \in DOMAIN store

\* the persist loop has deleted the WAL file of a segment it has written,
\* while the WAL file of another segment that is not written is kept
C13_Witness ==
  /\ \E id \in DOMAIN store : id \notin DOMAIN wal /\ id \notin DOMAIN segments
  /\ \E id \in DOMAIN segments : id \in DOMAIN wal /\ id \notin DOMAIN store

C15_SequenceNumbersAreContiguous ==
  /\ \A id \in DOMAIN wal : \A i \in DOMAIN wal[id].batches :
       wal[id].batches[i].sequence_number = i
  /\ (hist.appended # <<>> /\ 1 \in DOMAIN wal) =>
       /\ wal[1].batches # <<>>
       /\ wal[1].batches[1].wid = hist.appended[1]
  /\ hist.appended # <<>> => 1 \in CreatedIds

\* two calls have appended to the WAL file of segment 1
C15_Witness ==
  /\ 1 \in DOMAIN wal
  /\ Len(wal[1].batches) >= 2
  /\ wal[1].batches[2].sequence_number = 2
  /\ wal[1].batches[1].wid # wal[1].batches[2].wid

\* the batches in the WAL files, each with its file and its place
WalBatches ==
  UNION {{[id |-> id, i |-> i, batch |-> wal[id].batches[i]] :
            i \in DOMAIN wal[id].batches} : id \in DOMAIN wal}

\* the place of the call in the order of the appends
AppendOrder(wid) == CHOOSE k \in DOMAIN hist.appended : hist.appended[k] = wid

C18_CorruptWalFailsTheStartup ==
  /\ hist.restart # NoneOpt =>
       (hist.restart[1].corrupt # {} <=> ~hist.restart[1].ok)
  /\ (hist.restart # NoneOpt /\ hist.restart[1].corrupt # {}) =>
       /\ hist.restart[1].error = Some("CorruptLoadState")
       /\ \A w \in Writers : wr[w].pc = "down" /\ wr[w].error = Some("CorruptLoadState")
       /\ catalog = EmptyMap
       /\ segments = EmptyMap
       /\ ~persist_loop.running
       /\ \A id \in hist.restart[1].corrupt : id \in DOMAIN wal /\ id \notin DOMAIN store

\* a startup failed on its second WAL file, after it had replayed the first
C18_Witness ==
  /\ hist.restart # NoneOpt
  /\ hist.restart[1].corrupt = {2}
  /\ 1 \in DOMAIN wal
  /\ 1 > MaxOf(DOMAIN store)
  /\ wal[1].batches # <<>>
  /\ \A w \in Writers : wr[w].pc = "down"

\* the segment ids of the model
SegmentIds == 1..(2 * MaxWrites)

\* a failed upload changes nothing but the note of the failure: the persist
\* task runs on, the segment is closed with its rows, its WAL file is whole
UploadFailureKeepsTheSegment ==
  persist_loop'.failures > persist_loop.failures =>
    /\ persist_loop'.running
    /\ persist_loop'.failed # persist_loop.failed
    /\ segments' = segments
    /\ wal' = wal
    /\ store' = store
    /\ \A id \in persist_loop'.failed :
         /\ id \in DOMAIN segments /\ segments[id].state = "persisting"
         /\ id \in DOMAIN wal

\* a segment whose upload failed waits, closed, with its rows and its WAL
\* file and not in object storage
FailedUploadsWait ==
  \A id \in persist_loop.failed :
    /\ id \in DOMAIN segments
    /\ segments[id].state = "persisting"
    /\ id \in DOMAIN wal
    /\ id \notin DOMAIN store

\* C19: a failed upload does not stop the persist loop; the segment stays
\* closed (persisting) with its WAL file whole and its rows in memory, and
\* unless the loop is shut down a later scan takes its upload up again.
C19_FailedUploadIsRetried ==
  /\ []FailedUploadsWait
  /\ [][UploadFailureKeepsTheSegment]_vars
  /\ \A id \in SegmentIds :
       (id \in persist_loop.failed) ~> (id \in ToUpload \/ persist_loop.shutdown)

\* a segment whose upload failed in one scan is in object storage after a
\* later scan, and its WAL file is deleted
C19_Witness ==
  \E id \in hist.upload_failed :
    /\ id \in DOMAIN store
    /\ id \notin DOMAIN wal
    /\ persist_loop.running

\* the persist task has left its loop between two scans: each segment is
\* persisted, with its WAL file deleted and out of the segment state, or it
\* is in the segment state with its WAL file and not in object storage
ExitIsBetweenScans ==
  ~persist_loop.running =>
    /\ persist_loop.shutdown
    /\ \A id \in CreatedIds :
         \/ id \in DOMAIN store /\ id \notin DOMAIN wal /\ id \notin DOMAIN segments
         \/ id \in DOMAIN segments /\ id \in DOMAIN wal /\ id \notin DOMAIN store

C21_CatalogOnlyGrows ==
  [][hist'.restarts = hist.restarts =>
       \A db_name \in DOMAIN catalog :
         /\ db_name \in DOMAIN catalog'
         /\ DOMAIN catalog[db_name].schema.tables
              \subseteq DOMAIN catalog'[db_name].schema.tables
         /\ ColumnsOf(catalog[db_name].schema)
              \subseteq ColumnsOf(catalog'[db_name].schema)
  ]_vars

\* the table cpu of database foo was created by one write and has got the
\* columns of another
C21_Witness ==
  /\ hist.restarts = 0
  /\ "foo" \in DOMAIN catalog
  /\ catalog["foo"].sequence = 2
  /\ "cpu" \in DOMAIN catalog["foo"].schema.tables
  /\ DOMAIN catalog["foo"].schema.tables["cpu"].columns
       = {"bar", "region", "user", "time"}


\* the point lines of a text for a table
PointLinesOf(lp, table_name) ==
  {i \in DOMAIN lp : lp[i].kind = "point" /\ lp[i].measurement = table_name}

\* the tag keys and the field names of the lines of a text for a table, and
\* the time column
ExpectedColumns(lp, table_name) ==
  {TIME_COLUMN_NAME}
    \cup UNION {{lp[i].tag_set[k] : k \in DOMAIN lp[i].tag_set}
                  : i \in PointLinesOf(lp, table_name)}
    \cup UNION {{lp[i].field_set[k][1] : k \in DOMAIN lp[i].field_set}
                  : i \in PointLinesOf(lp, table_name)}

\* the tables the lines of a text write to
ExpectedTables(lp) == {lp[i].measurement : i \in {j \in DOMAIN lp : lp[j].kind = "point"}}

\* C22: when a text has been written twice to a new catalog, the tables of
\* its database are the tables of its lines, the columns of each table are
\* the tags and fields of its lines and time, and the second write returned
\* no schema: the catalog was replaced once at most.
C22_SecondWriteFindsNothingNew ==
  (wr["w2"].result # NoneOpt /\ wr["w1"].req # NoneOpt) =>
    LET r == wr["w1"].req[1]
        schema == catalog[r.db_name].schema
    IN  /\ wr["w2"].req = wr["w1"].req
        /\ wr["w2"].result[1].schema = NoneOpt
        /\ wr["w2"].pc = "flush"
        /\ DOMAIN schema.tables = ExpectedTables(r.lp)
        /\ \A t \in DOMAIN schema.tables :
             DOMAIN schema.tables[t].columns = ExpectedColumns(r.lp, t)
        /\ catalog[r.db_name].sequence = IF ExpectedTables(r.lp) = {} THEN 0 ELSE 1

\* a text of two lines for the table cpu, a third line rejected, was written
\* twice
C22_Witness ==
  /\ wr["w2"].result # NoneOpt
  /\ wr["w1"].req # NoneOpt
  /\ wr["w2"].result[1].errors # <<>>
  /\ RowCount(wr["w2"].result[1].valid_segmented_data) = 2
  /\ \E db_name \in DOMAIN catalog :
       /\ DOMAIN catalog[db_name].schema.tables = {"cpu"}
       /\ DOMAIN catalog[db_name].schema.tables["cpu"].columns
            = {"bar", "region", "user", "time"}


LocksHeld(a) == {h.lock : h \in locks.held[a]}

ChangedDatabases ==
  {db_name \in DOMAIN catalog' :
     db_name \notin DOMAIN catalog \/ catalog'[db_name] # catalog[db_name]}

\* C25: a step that creates or replaces the entry of one database leaves the
\* entry of every other database, its sequence included, as it was, so a
\* caller about to replace the schema of another database with the sequence
\* it read still finds that sequence.
C25_SequencesArePerDatabase ==
  [][hist'.restarts = hist.restarts =>
       /\ Cardinality(ChangedDatabases) <= 1
       /\ \A a \in ChangedDatabases :
            \A w \in Writers :
              (/\ wr[w].pc = "replace"
               /\ wr[w].req[1].db_name # a
               /\ ReplaceSucceeds(catalog, wr[w].sequence, wr[w].req[1].db_name))
              => /\ wr'[w] = wr[w]
                 /\ ReplaceSucceeds(catalog', wr'[w].sequence, wr'[w].req[1].db_name)
  ]_vars

\* a caller has replaced the schema of one database while another caller is
\* about to replace the schema of another database, with the sequence it
\* read before
C25_Witness ==
  /\ hist.restarts = 0
  /\ {"foo", "bar"} \subseteq DOMAIN catalog
  /\ \E w1, w2 \in Writers :
       /\ wr[w1].pc = "replace"
       /\ wr[w2].pc = "flush" /\ wr[w2].mutated
       /\ wr[w1].req[1].db_name # wr[w2].req[1].db_name
       /\ catalog[wr[w2].req[1].db_name].sequence = 1
       /\ ReplaceSucceeds(catalog, wr[w1].sequence, wr[w1].req[1].db_name)


\* the whole seconds of the row time of a point with a timestamp that is not
\* negative, counted from the literal and the precision
RowSeconds(line, r) ==
  IF line.timestamp = NoneOpt THEN r.ingest_time.s
  ELSE line.timestamp[1] \div (NanosPerSec \div Multiplier(r.precision))

\* the start of the bucket a point belongs to
BucketOf(line, r) ==
  SegmentDurationSecs * (RowSeconds(line, r) \div SegmentDurationSecs)

\* the points of a text
PointsOf(lp) == {i \in DOMAIN lp : lp[i].kind = "point"}

\* the rows of the points of a text for one bucket and table, in input order
RowsOfBucket(r, segment_start, table_name) ==
  LET Here(l) == /\ l.kind = "point"
                 /\ l.measurement = table_name
                 /\ BucketOf(l, r) = segment_start
      ToRow(l) == LineRow(l, r.ingest_time, r.precision)
  IN  SeqMap(ToRow, SelectSeq(r.lp, Here))

\* C26: a validation returns one ValidSegmentedData per bucket start of its
\* valid rows, keyed and marked with that start, and its table batches hold
\* the rows of the lines of that bucket and table, each once, in input order.
C26_RowsArePartitionedByBucket ==
  \A w \in Writers :
    Validated(w) =>
      LET r == wr[w].req[1]
          data == wr[w].result[1].valid_segmented_data
      IN  /\ DOMAIN data = {BucketOf(r.lp[i], r) : i \in PointsOf(r.lp)}
          /\ \A b \in DOMAIN data :
               /\ data[b].segment_start = b
               /\ DOMAIN data[b].table_batches
                    = {r.lp[i].measurement :
                         i \in {j \in PointsOf(r.lp) : BucketOf(r.lp[j], r) = b}}
               /\ \A t \in DOMAIN data[b].table_batches :
                    data[b].table_batches[t] = RowsOfBucket(r, b, t)
          /\ RowCount(data) = Cardinality(PointsOf(r.lp))

\* a validation of three lines gave two batches: two rows in the bucket 0 s
\* and one in the bucket 300 s
C26_Witness ==
  \E w \in Writers :
    /\ Validated(w)
    /\ DOMAIN wr[w].result[1].valid_segmented_data = {0, 300}
    /\ RowCount(wr[w].result[1].valid_segmented_data) = 3
    /\ SumLens(wr[w].result[1].valid_segmented_data[0].table_batches) = 2


\* C27: the row time of a line without a timestamp is the ingest time; the
\* row time of a line with the literal ts is ts times the multiplier of the
\* effective precision, exactly: the computation does not fail and does not
\* wrap around.
C27_RowTimeIsExact ==
  (call.fn = "time_value_nanos" /\ call.result # NoneOpt) =>
    /\ call.result[1].kind = "value"
    /\ call.args.timestamp = NoneOpt =>
         call.result[1].value = call.args.ingest_time
    /\ call.args.timestamp # NoneOpt =>
         /\ call.result[1].effective \in EffectivePrecisions(call.args.precision)
         /\ call.result[1].value =
              ExactProduct(call.args.timestamp[1], call.result[1].effective)


RECURSIVE LexLess(_, _)
\* the text p sorts before the text q, character by character
LexLess(p, q) ==
  IF q = <<>> THEN FALSE
  ELSE IF p = <<>> THEN TRUE
  ELSE IF p[1] # q[1] THEN p[1] < q[1]
  ELSE LexLess(Tail(p), Tail(q))

\* the characters of the last part of a path up to its first dot
NumberComponent(path) ==
  LET slash == CHOOSE i \in 0..Len(path) :
                 /\ i > 0 => path[i] = 47
                 /\ \A j \in (i + 1)..Len(path) : path[j] # 47
      dot == CHOOSE i \in (slash + 1)..Len(path) :
               /\ path[i] = 46
               /\ \A j \in (slash + 1)..(i - 1) : path[j] # 46
  IN  SubSeq(path, slash + 1, dot - 1)

\* C28: of two paths of one kind (and one database, table and date), the one
\* built for the larger id sorts before the one built for the smaller id;
\* the numeric component is ten digits, and is 4294967295 for the id 0.
C28_NewerPathsSortFirst ==
  (call.fn = "path_new" /\ call.result # NoneOpt) =>
    /\ MagLess(call.args.a, call.args.b) => LexLess(call.result[1].b, call.result[1].a)
    /\ Len(NumberComponent(call.result[1].a)) = 10
    /\ \A i \in 1..10 : NumberComponent(call.result[1].a)[i] \in 48..57
    /\ call.args.a = <<>> =>
         NumberComponent(call.result[1].a) = <<52, 50, 57, 52, 57, 54, 55, 50, 57, 53>>

\* a parquet path for the id 0, which is dbs/foo/cpu/2038-01-19/4294967295.parquet,
\* and one for an id whose number has nine significant digits
C28_Witness ==
  /\ call.fn = "path_new" /\ call.result # NoneOpt
  /\ call.args.kind = "parquet"
  /\ call.args.a = <<>> /\ call.args.b = <<296, 967, 294, 3>>
  /\ call.result[1].a = <<100, 98, 115, 47, 102, 111, 111, 47, 99, 112, 117, 47, 50, 48, 51, 56, 45, 48, 49, 45, 49, 57, 47, 52, 50, 57, 52, 57, 54, 55, 50, 57, 53, 46, 112, 97, 114, 113, 117, 101, 116>>
  /\ NumberComponent(call.result[1].b) = <<48, 57, 57, 57, 57, 57, 57, 57, 57, 57>>


\* the time columns of a schema
TimeColumns(schema) == ColumnsOfKind(schema, "Timestamp")

\* a schema with exactly one time column, which is not nullable, and with
\* nullable tags
OneTimeColumn(schema) ==
  /\ Cardinality(TimeColumns(schema)) = 1
  /\ \A n \in TimeColumns(schema) : ~schema[n].nullable
  /\ \A n \in ColumnsOfKind(schema, "Tag") : schema[n].nullable

\* the same of the columns of a snapshot
SnapshotHasOneTimeColumn(snap) ==
  /\ Cardinality({k \in DOMAIN snap.cols : snap.cols[k].meta = "Time"}) = 1
  /\ \A k \in DOMAIN snap.cols :
       /\ snap.cols[k].meta = "Time" => ~snap.cols[k].nullable
       /\ snap.cols[k].meta = "Tag" => snap.cols[k].nullable

\* the tables of a validation result and of the catalog have one time column
ValidatedTablesHaveOneTimeColumn ==
  /\ \A db \in DOMAIN catalog : \A t \in DOMAIN catalog[db].schema.tables :
       OneTimeColumn(SchemaOf(catalog[db].schema.tables[t]))
  /\ \A w \in Writers :
       (wr[w].result # NoneOpt /\ wr[w].result[1].schema # NoneOpt) =>
         \A t \in DOMAIN wr[w].result[1].schema[1].tables :
           OneTimeColumn(SchemaOf(wr[w].result[1].schema[1].tables[t]))

\* the tables the program writes to a catalog file, and reads from a file it
\* wrote, have one time column; what is read is what was written
WrittenTablesHaveOneTimeColumn ==
  /\ call.fn = "serialize" => SnapshotHasOneTimeColumn(call.result[1])
  /\ (call.fn = "deserialize" /\ call.args.written) =>
       /\ call.result[1].kind = "value"
       /\ call.result[1].name = call.args.def[1].name
       /\ call.result[1].schema = SchemaOf(call.args.def[1])
       /\ OneTimeColumn(call.result[1].schema)

WalAppendFails(w) ==
  /\ wr[w].pc = "flush"
  /\ wr'[w].pc = "err"
  /\ wr'[w].error = Some([kind |-> "WalError", line |-> NoneOpt])

\* the calls whose rows are in a buffer, and those whose batches are in the WAL
BufferedCalls ==
  UNION {UNION {{segments[id].buffer[key][i].wid : i \in DOMAIN segments[id].buffer[key]} :
                  key \in DOMAIN segments[id].buffer} : id \in DOMAIN segments}

LoggedCalls ==
  UNION {{wal[id].batches[i].wid : i \in DOMAIN wal[id].batches} : id \in DOMAIN wal}

BatchedRows(data) ==
  UNION {UNION {{[segment_start |-> data[b].segment_start,
                  time |-> data[b].table_batches[t][i].time] :
                   i \in DOMAIN data[b].table_batches[t]} :
                  t \in DOMAIN data[b].table_batches} : b \in DOMAIN data}

\* a time of s seconds and n nanoseconds, 0 <= n < 10^9, is within the
\* bucket that starts at the second segment_start
WithinBucket(segment_start, time) ==
  /\ segment_start <= time.s
  /\ time.s < segment_start + SegmentDurationSecs

\* C31: every row of a ValidSegmentedData with bucket start s has a time t
\* with s <= t < s + segment duration, also when t is negative or not a
\* whole number of seconds.
C31_RowsAreWithinTheirBucket ==
  \A w \in Writers :
    Validated(w) =>
      \A x \in BatchedRows(wr[w].result[1].valid_segmented_data) :
        WithinBucket(x.segment_start, x.time)


\* the lines of a text for a table that name a column as a tag or a field
LinesNaming(lp, table_name, name) ==
  {i \in PointLinesOf(lp, table_name) :
     \/ \E k \in DOMAIN lp[i].tag_set : lp[i].tag_set[k] = name
     \/ \E k \in DOMAIN lp[i].field_set : lp[i].field_set[k][1] = name}

\* the type the first line that names a column gives it
FirstType(lp, table_name, name) ==
  LET i == CHOOSE i \in LinesNaming(lp, table_name, name) :
             \A j \in LinesNaming(lp, table_name, name) : i <= j
  IN  IF \E k \in DOMAIN lp[i].tag_set : lp[i].tag_set[k] = name
      THEN "Tag"
      ELSE ColumnTypeFromField(
             lp[i].field_set[CHOOSE k \in DOMAIN lp[i].field_set :
                               lp[i].field_set[k][1] = name][2])

\* the tables of the schema after a validation of a text
TablesAfter(w) ==
  IF wr[w].result[1].schema # NoneOpt
  THEN wr[w].result[1].schema[1].tables
  ELSE wr[w].db[1].tables

\* C32: after a validation, a table the schema did not have is there with
\* exactly the tag keys and field names of its lines plus one time column,
\* each column typed by the first line that names it; a table the schema had
\* keeps its columns and gains those its lines name and it lacked; tables
\* without lines are as before.
C32_NewTableHasTheColumnsOfItsLines ==
  \A w \in Writers :
    Validated(w) =>
      LET lp == wr[w].req[1].lp
          before == wr[w].db[1].tables
          after == TablesAfter(w)
      IN  /\ DOMAIN after = DOMAIN before \cup ExpectedTables(lp)
          /\ \A t \in DOMAIN after \ ExpectedTables(lp) : after[t] = before[t]
          /\ \A t \in ExpectedTables(lp) \ DOMAIN before :
               /\ after[t].name = t
               /\ DOMAIN after[t].columns = ExpectedColumns(lp, t)
               /\ after[t].columns[TIME_COLUMN_NAME] = "Time"
               /\ \A n \in DOMAIN after[t].columns \ {TIME_COLUMN_NAME} :
                    after[t].columns[n] = FirstType(lp, t, n)
          /\ \A t \in ExpectedTables(lp) \cap DOMAIN before :
               /\ DOMAIN after[t].columns
                    = DOMAIN before[t].columns \cup ExpectedColumns(lp, t)
               /\ \A n \in DOMAIN before[t].columns :
                    after[t].columns[n] = before[t].columns[n]
               /\ \A n \in DOMAIN after[t].columns \ DOMAIN before[t].columns :
                    after[t].columns[n] = FirstType(lp, t, n)

\* `cpu,region=west user=23.2 100`, `cpu bar=1 10` and `foo f1=1i` validated
\* against an empty schema: cpu has the 3 columns of its first line and the
\* column bar of its second, foo has 2 columns
C32_Witness ==
  \E w \in Writers :
    /\ Validated(w)
    /\ wr[w].req[1].lp = <<LCpuRegionUser, LCpuBar, LFoo>>
    /\ wr[w].db[1].tables = EmptyMap
    /\ DOMAIN TablesAfter(w) = {"cpu", "foo"}
    /\ Cardinality(DOMAIN TablesAfter(w)["cpu"].columns) = 4
    /\ Cardinality(DOMAIN TablesAfter(w)["foo"].columns) = 2


\* the points the validation of a text reaches: all of them, or none when
\* the text has a rejected line and partial writes are not accepted
ValidPoints(r) ==
  IF ~r.accept_partial /\ \E i \in DOMAIN r.lp : r.lp[i].kind = "bad"
  THEN {}
  ELSE PointsOf(r.lp)

\* a text brings a table or a column that a schema lacks
DiscoversNew(r, tables) ==
  \E i \in ValidPoints(r) :
    \/ r.lp[i].measurement \notin DOMAIN tables
    \/ ~(ExpectedColumns(r.lp, r.lp[i].measurement)
           \subseteq DOMAIN tables[r.lp[i].measurement].columns)

\* the call of w found nothing new
FoundNothingNew(w) == wr[w].result # NoneOpt /\ wr[w].result[1].schema = NoneOpt

\* C33: a validation returns a schema exactly when its text brings a new
\* table or column, and then the schema differs from the snapshot and goes
\* to replace_database; when it returns none, the call goes on to the flusher
\* and no step of the call changes the catalog.  The validation itself
\* leaves every entry of the catalog as it was: the snapshot is not modified.
C33_SchemaIsReturnedOnlyWhenChanged ==
  /\ [](\A w \in Writers :
          Validated(w) =>
            /\ (wr[w].result[1].schema # NoneOpt)
                 <=> DiscoversNew(wr[w].req[1], wr[w].db[1].tables)
            /\ wr[w].result[1].schema # NoneOpt =>
                 /\ wr[w].result[1].schema[1] # wr[w].db[1]
                 /\ wr[w].pc \in {"replace", "flush", "applying", "flushed"}
            /\ wr[w].result[1].schema = NoneOpt => wr[w].pc # "replace")
  /\ [][\A w \in Writers :
          /\ (wr'[w].pc # wr[w].pc /\ FoundNothingNew(w)) => catalog' = catalog
          /\ (wr[w].result = NoneOpt /\ wr'[w].result # NoneOpt) =>
               /\ \A db \in DOMAIN catalog : catalog'[db] = catalog[db]
               /\ catalog'[wr'[w].req[1].db_name].schema = wr'[w].db[1]
               /\ catalog'[wr'[w].req[1].db_name].sequence = wr'[w].sequence]_vars

\* a call found nothing new in a database whose schema an earlier call had
\* replaced, and waits for the flusher
C33_Witness ==
  \E w \in Writers :
    /\ FoundNothingNew(w)
    /\ wr[w].pc = "flush"
    /\ wr[w].sequence = 1
    /\ catalog[wr[w].req[1].db_name].sequence = 1
    /\ wr[w].result[1].valid_segmented_data # EmptyMap


\* the number that ten digits denote, in base-1000 limbs
ValueOfDigits(text) ==
  LET d(p) == IF p <= Len(text) THEN text[Len(text) + 1 - p] - 48 ELSE 0
  IN  Trimmed([i \in 1..4 |-> d(3 * i - 2) + 10 * d(3 * i - 1) + 100 * d(3 * i)])

\* a directory with one separator after it
DirWithSeparator(dir) == IF dir[Len(dir)] = 47 THEN dir ELSE dir \o <<47>>

\* C34: the WAL file path of a segment is the directory, a separator, the
\* segment id itself in ten digits and ".wal"; two ids have two paths, and
\* the path of the smaller id sorts before the path of the larger.
C34_WalPathsSortById ==
  (call.fn = "wal_path_new" /\ call.result # NoneOpt) =>
    LET a == call.args.a
        b == call.args.b
        path_a == call.result[1].a
        path_b == call.result[1].b
        prefix == DirWithSeparator(call.args.dir)
        name == SubSeq(path_a, Len(prefix) + 1, Len(prefix) + 10)
    IN  /\ Len(path_a) = Len(prefix) + 14
        /\ SubSeq(path_a, 1, Len(prefix)) = prefix
        /\ \A i \in 1..10 : name[i] \in 48..57
        /\ ValueOfDigits(name) = a
        /\ SubSeq(path_a, Len(prefix) + 11, Len(path_a)) = <<46, 119, 97, 108>>
        /\ a # b => path_a # path_b
        /\ MagLess(a, b) => LexLess(path_a, path_b)

\* the paths dir/0000000000.wal of the id 0 and dir/0000000010.wal of the
\* id 10
C34_Witness ==
  /\ call.fn = "wal_path_new" /\ call.result # NoneOpt
  /\ call.args.a = <<>> /\ call.args.b = <<10>>
  /\ call.result[1].a = <<100, 105, 114, 47, 48, 48, 48, 48, 48, 48, 48, 48, 48, 48, 46, 119, 97, 108>>
  /\ call.result[1].b = <<100, 105, 114, 47, 48, 48, 48, 48, 48, 48, 48, 48, 49, 48, 46, 119, 97, 108>>


\* the field names a column of the table in the catalog and its value is of
\* the variant that the type of the column holds
FieldMatchesColumn(db_name, table_name, f) ==
  /\ db_name \in DOMAIN catalog
  /\ table_name \in DOMAIN catalog[db_name].schema.tables
  /\ LET columns == catalog[db_name].schema.tables[table_name].columns
     IN  /\ f.name \in DOMAIN columns
         /\ f.value = VariantOfColumn(columns[f.name])

\* C35: every field of every row in a segment buffer names a column of its
\* table in the catalog and holds a value of the variant of that column's
\* type.
C35_BufferedRowsMatchTheCatalog ==
  \A id \in DOMAIN segments :
    \A key \in DOMAIN segments[id].buffer :
      \A i \in DOMAIN segments[id].buffer[key] :
        LET row == segments[id].buffer[key][i].row
        IN  \A k \in DOMAIN row.fields :
              FieldMatchesColumn(key[1], key[2], row.fields[k])


\* the columns of the rows of a chunk
ChunkColumns(batch) ==
  UNION {{batch[i].fields[k].name : k \in DOMAIN batch[i].fields} : i \in DOMAIN batch}

\* C36: the schema of every chunk that get_table_chunks returns holds every
\* column of every row of the chunk, also when a write adds a column to the
\* table between the read of the schema and the clone of the buffers.
C36_ChunkSchemaCoversItsRows ==
  reader.pc = "done" =>
    \A id \in DOMAIN reader.chunks :
      ChunkColumns(reader.chunks[id]) \subseteq DOMAIN reader.table[1].columns


\* the validation of the call returned a schema with new tables or columns,
\* and no other call has replaced the schema of the database since
OnlyReplacerOfItsDatabase(w) ==
  /\ wr[w].result[1].schema # NoneOpt
  /\ catalog[wr[w].req[1].db_name].sequence = wr[w].sequence + 1

\* C37: when the WAL append of a call that found new tables or columns fails,
\* the schema of the database in the catalog is the one the call started
\* from.
C37_FailedAppendLeavesTheSchema ==
  [][\A w \in Writers :
       (WalAppendFails(w) /\ OnlyReplacerOfItsDatabase(w)) =>
         catalog'[wr[w].req[1].db_name].schema = wr[w].db[1]]_vars


\* the WAL file of a segment of the bucket holds the batch of the call with
\* the lines of its rows
InWalFile(a, b) ==
  \E id \in DOMAIN wal :
    /\ wal[id].segment_start = b
    /\ \E i \in DOMAIN wal[id].batches :
         /\ wal[id].batches[i].wid = a.wid
         /\ wal[id].batches[i].ops = <<a.data[b].wal_op>>

\* a columnar file in object storage holds the row of the table
InObjectStore(db_name, table_name, row) ==
  \E id \in DOMAIN store :
    /\ <<db_name, table_name>> \in DOMAIN store[id]
    /\ \E i \in DOMAIN store[id][<<db_name, table_name>>] :
         store[id][<<db_name, table_name>>][i] = row

\* C38: every row of every acknowledged write is in the WAL file of its
\* segment, which still exists, or in a columnar file written to object
\* storage.
C38_AckedRowsAreDurable ==
  \A a \in hist.acked : \A b \in DOMAIN a.data :
    \A t \in DOMAIN a.data[b].table_batches :
      \A row \in BatchRows(a, b, t) :
        InWalFile(a, b) \/ InObjectStore(a.data[b].database_name, t, row)


\* the text of the call brings nothing that the schema it read lacks
NeedsNothingNew(w) ==
  /\ wr[w].req # NoneOpt
  /\ ~DiscoversNew(wr[w].req[1], wr[w].db[1].tables)

\* C39: a call whose text brings no new table or column does not call
\* replace_database, so it gets no Conflict whatever the other callers
\* replace meanwhile: it fails only with the error of its WAL append; and no
\* step of it changes the catalog or the sequence of a database.
C39_QuietWriteNeverConflicts ==
  [][\A w \in Writers :
       /\ (wr'[w].pc # wr[w].pc /\ NeedsNothingNew(w)') =>
            /\ wr'[w].pc # "replace"
            /\ \A db \in DOMAIN catalog :
                 catalog'[db].sequence = catalog[db].sequence
       /\ (wr'[w].pc # wr[w].pc /\ NeedsNothingNew(w)) =>
            /\ catalog' = catalog
            /\ wr'[w].pc = "err" =>
                 /\ wr[w].pc = "flush"
                 /\ wr'[w].error = Some([kind |-> "WalError", line |-> NoneOpt])]_vars

\* the flusher has answered a call that brought nothing new, after another
\* caller replaced the schema of its database since the call read it
C39_Witness ==
  \E w \in Writers :
    /\ NeedsNothingNew(w)
    /\ wr[w].pc = "flushed"
    /\ wr[w].result[1].valid_segmented_data # EmptyMap
    /\ wr[w].wid \in LoggedCalls
    /\ catalog[wr[w].req[1].db_name].sequence > wr[w].sequence


\* the call with this number waits in write_to_open_segment
Queued(i) == \E w \in Writers : wr[w].wid = i /\ wr[w].pc \in {"flush", "applying", "flushed"}

\* the call with this number has returned, with Ok or with an error
HasReturned(i) == \E w \in Writers : wr[w].wid = i /\ wr[w].pc \in {"ok", "err"}

====
